---- MODULE Spec2Model ----
(***************************************************************************)
(* A model of the wallet transaction engine of Gridcoin-Research           *)
(* (src/wallet/wallet.cpp): the transaction ledger (mapWallet and its      *)
(* spent flags), the coin selectors, the transaction builder and the       *)
(* commit step.                                                            *)
(*                                                                         *)
(* Several specifications are given, told apart by the variable scenario.  *)
(* SpecSelect exercises the coin selectors as pure functions of a          *)
(* candidate list, SpecAttempts the threshold order of SelectCoins and     *)
(* SpecStake the staking selection.  Spec is the ledger state machine      *)
(* with every ledger operation and one caller; SpecSend has two callers    *)
(* building and committing payments; SpecMerge and SpecRecord hand         *)
(* AddToWallet arbitrary records; SpecAudit and SpecObserve keep the whole *)
(* of each ledger call for reconciliation and membership; SpecVault is     *)
(* the key vault with its encryption state and master-key records and      *)
(* SpecHD the derivation of keys.  SpecBalance evaluates the unconfirmed   *)
(* balance of a ledger, SpecLocks runs the critical sections of the        *)
(* wallet operations on three threads, SpecPool has two callers reserve,   *)
(* keep and return keys of the key pool, and SpecReaccept follows          *)
(* ReacceptWalletTransactions through its loop (SpecReacceptFair with the  *)
(* call kept running).  Money is counted in half cents, so that CENT is 2  *)
(* and sub-cent amounts exist.                                             *)
(***************************************************************************)
EXTENDS Integers, Sequences, FiniteSets, TLC

VARIABLES
    selIn,          \* SpecSelect: the arguments of the selector call
    selOut,         \* SpecSelect: what the selector returned
    vault,          \* the key store: encryption state and master-key records
    scenario,       \* which transactions and requests the environment offers
    mapWallet,      \* the ledger: transaction hash -> CWalletTx
    nOrderPosNext,  \* the next order position to hand out
    fFileBacked,    \* whether the wallet has a database file
    nKeypoolSize,   \* the -keypool setting
    keyPool,        \* setKeyPool, the pool entries of the database, keys generated
    caller,         \* per caller: where it is, its wtxNew and its reservekey
    mempool,        \* hashes of the built transactions the mempool accepted
    fPruned,        \* history: a record was erased, or FixSpentCoins marked an output spent
    orphaned,       \* history: the coinstakes disconnected and not seen in a block since
    keptKeys,       \* history: the keys CommitTransaction has kept
    lastOp          \* history: the last operation, its arguments and outcome

selVars == <<selIn, selOut>>
ledgerVars == <<vault, scenario, mapWallet, nOrderPosNext, fFileBacked, nKeypoolSize, keyPool, caller,
                mempool, fPruned, orphaned, keptKeys, lastOp>>
vars == <<selIn, selOut, vault, scenario, mapWallet, nOrderPosNext, fFileBacked, nKeypoolSize, keyPool,
          caller, mempool, fPruned, orphaned, keptKeys, lastOp>>

(***************************************************************************)
(* Bounds of the model.                                                    *)
(***************************************************************************)
MaxCoins == 3
MaxCoinValue == 4
MaxTarget == 5

(***************************************************************************)
(* Program constants.                                                      *)
(***************************************************************************)
\* the dust/cent unit, in half cents
CENT == 2
\* the number of trials SelectCoinsMinConf asks ApproximateBestSubset for
iterations == 1000

(***************************************************************************)
(* Helpers on sequences.                                                   *)
(***************************************************************************)
Range(s) == {s[k] : k \in 1..Len(s)}

\* every ordering of the elements of s
Perms(s) ==
    {[k \in 1..Len(s) |-> s[p[k]]] :
        p \in {q \in [1..Len(s) -> 1..Len(s)] : \A a, b \in 1..Len(s) : q[a] = q[b] => a = b}}

RECURSIVE SumValues(_)
SumValues(S) ==
    IF S = {} THEN 0
    ELSE LET c == CHOOSE x \in S : TRUE IN c.nValue + SumValues(S \ {c})

\* the (transaction, output index) pair that names a candidate
OutPoint(c) == <<c.hash, c.i>>

(***************************************************************************)
(* ApproximateBestSubset: one trial (two passes over vValue).  bits are    *)
(* the outcomes of rng.randbool() in the first pass.                       *)
(***************************************************************************)
RECURSIVE ApproxPass(_, _, _, _, _, _)
ApproxPass(vValue, nTargetValue, nPass, i, bits, st) ==
    IF i > Len(vValue) THEN st
    ELSE IF ~(IF nPass = 0 THEN bits[i] ELSE ~st.vfIncluded[i])
         THEN ApproxPass(vValue, nTargetValue, nPass, i + 1, bits, st)
         ELSE LET nTotal == st.nTotal + vValue[i].nValue IN
              IF nTotal >= nTargetValue
              THEN \* the i-th coin is included, compared, and taken out again
                   ApproxPass(vValue, nTargetValue, nPass, i + 1, bits,
                       [st EXCEPT !.fReachedTarget = TRUE,
                                  !.nBest = IF nTotal < st.nBest THEN nTotal ELSE @,
                                  !.vfBest = IF nTotal < st.nBest
                                             THEN [st.vfIncluded EXCEPT ![i] = TRUE]
                                             ELSE @])
              ELSE ApproxPass(vValue, nTargetValue, nPass, i + 1, bits,
                       [st EXCEPT !.nTotal = nTotal, !.vfIncluded[i] = TRUE])

ApproxTrial(vValue, nTargetValue, bits, best) ==
    LET s0 == [nTotal |-> 0,
               vfIncluded |-> [k \in 1..Len(vValue) |-> FALSE],
               fReachedTarget |-> FALSE,
               nBest |-> best.nBest,
               vfBest |-> best.vfBest]
        s1 == ApproxPass(vValue, nTargetValue, 0, 1, bits, s0)
        s2 == IF s1.fReachedTarget THEN s1
              ELSE ApproxPass(vValue, nTargetValue, 1, 1, bits, s1)
    IN [nBest |-> s2.nBest, vfBest |-> s2.vfBest]

\* The results possible after nRep more trials, from any of the results in S.
\* A trial is skipped once nBest = nTargetValue.  When a round of trials
\* leaves the set of possible results unchanged, so does every later round.
RECURSIVE ApproxReps(_, _, _, _)
ApproxReps(vValue, nTargetValue, nRep, S) ==
    IF nRep = 0 THEN S
    ELSE LET T == UNION {IF b.nBest = nTargetValue THEN {b}
                         ELSE {ApproxTrial(vValue, nTargetValue, bits, b) :
                                   bits \in [1..Len(vValue) -> BOOLEAN]} : b \in S}
         IN IF T = S THEN S ELSE ApproxReps(vValue, nTargetValue, nRep - 1, T)

\* the set of (vfBest, nBest) the call can leave, over all random choices
ApproximateBestSubset(vValue, nTotalLower, nTargetValue, nIterations) ==
    ApproxReps(vValue, nTargetValue, nIterations,
               {[nBest |-> nTotalLower, vfBest |-> [k \in 1..Len(vValue) |-> TRUE]]})

(***************************************************************************)
(* The depth and spend-time filter shared by the selectors.                *)
(***************************************************************************)
\* a filter that also rejects a candidate exactly at the threshold
PassesFilterStrict(c, nSpendTime, nConfMine, nConfTheirs) ==
    /\ ~(c.nDepth <= (IF c.fFromMe THEN nConfMine ELSE nConfTheirs))
    /\ ~(c.nTime > nSpendTime)

PassesFilter(c, nSpendTime, nConfMine, nConfTheirs) ==
    /\ ~(c.nDepth < (IF c.fFromMe THEN nConfMine ELSE nConfTheirs))
    /\ ~(c.nTime > nSpendTime)

(***************************************************************************)
(* SelectCoinsMinConf.                                                     *)
(***************************************************************************)
\* The scan of the shuffled candidates.  exact, coinLowestLarger are
\* sequences of at most one coin (empty: none).
\* an exact-match test that is off by one
IsExactMatchOffByOne(n, nTargetValue) == n = nTargetValue + 1

\* a candidate that pays the target alone ends the scan
IsExactMatch(n, nTargetValue) == n = nTargetValue

RECURSIVE MinConfScan(_, _, _, _, _, _, _)
MinConfScan(vCoins, k, nTargetValue, nSpendTime, nConfMine, nConfTheirs, st) ==
    IF k > Len(vCoins) THEN st
    ELSE LET c == vCoins[k] IN
         IF ~PassesFilter(c, nSpendTime, nConfMine, nConfTheirs)
         THEN MinConfScan(vCoins, k + 1, nTargetValue, nSpendTime, nConfMine, nConfTheirs, st)
         ELSE IF IsExactMatch(c.nValue, nTargetValue)
         THEN [st EXCEPT !.exact = <<c>>]
         ELSE IF c.nValue < nTargetValue + CENT
         THEN MinConfScan(vCoins, k + 1, nTargetValue, nSpendTime, nConfMine, nConfTheirs,
                  [st EXCEPT !.vValue = Append(@, c), !.nTotalLower = @ + c.nValue])
         ELSE IF st.coinLowestLarger = <<>> \/ c.nValue < st.coinLowestLarger[1].nValue
         THEN MinConfScan(vCoins, k + 1, nTargetValue, nSpendTime, nConfMine, nConfTheirs,
                  [st EXCEPT !.coinLowestLarger = <<c>>])
         ELSE MinConfScan(vCoins, k + 1, nTargetValue, nSpendTime, nConfMine, nConfTheirs, st)

\* sort(vValue.rbegin(), vValue.rend(), CompareValueOnly()): descending by
\* value; std::sort leaves the order of equal values open
SortDescending(vValue) ==
    {p \in Perms(vValue) : \A a, b \in 1..Len(p) : a < b => p[a].nValue >= p[b].nValue}

\* the set the subset-sum result selects
BestSubset(vValue, vfBest) == {vValue[k] : k \in {j \in 1..Len(vValue) : vfBest[j]}}

\* What a selector hands back: the return value, setCoinsRet and nValueRet.
\* how and nBest are not returned by the code: how names the return
\* statement taken, nBest is the subset-sum total (-1 where none was made).
Selected(ret, coins, how, nBest) ==
    [ret |-> ret, setCoinsRet |-> {OutPoint(c) : c \in coins}, nValueRet |-> SumValues(coins),
     how |-> how, nBest |-> nBest]

\* the choice made with < in place of <=
PreferLowestLargerStrict(coinLowestLarger, nBest, nTargetValue) ==
    /\ coinLowestLarger # <<>>
    /\ \/ (nBest # nTargetValue /\ nBest < nTargetValue + CENT)
       \/ coinLowestLarger[1].nValue < nBest

\* The choice between the lowest larger coin and the subset-sum result.
PreferLowestLarger(coinLowestLarger, nBest, nTargetValue) ==
    /\ coinLowestLarger # <<>>
    /\ \/ (nBest # nTargetValue /\ nBest < nTargetValue + CENT)
       \/ coinLowestLarger[1].nValue <= nBest

\* the second subset-sum run, for nTargetValue + CENT
NeedsSecondRun(nBest, nTotalLower, nTargetValue) ==
    nBest # nTargetValue /\ nTotalLower >= nTargetValue + CENT

MinConfAfterScan(st, nTargetValue) ==
    IF st.exact # <<>> THEN {Selected(TRUE, {st.exact[1]}, "exact", -1)}
    ELSE IF st.nTotalLower = nTargetValue
    THEN {Selected(TRUE, Range(st.vValue), "lower", -1)}
    ELSE IF st.nTotalLower < nTargetValue
    THEN IF st.coinLowestLarger = <<>> THEN {Selected(FALSE, {}, "none", -1)}
         ELSE {Selected(TRUE, {st.coinLowestLarger[1]}, "larger", -1)}
    ELSE UNION {
           UNION {
             LET B2 == IF NeedsSecondRun(b1.nBest, st.nTotalLower, nTargetValue)
                       THEN ApproximateBestSubset(vValue, st.nTotalLower, nTargetValue + CENT, iterations)
                       ELSE {b1}
             IN {IF PreferLowestLarger(st.coinLowestLarger, b2.nBest, nTargetValue)
                 THEN Selected(TRUE, {st.coinLowestLarger[1]}, "larger", b2.nBest)
                 ELSE Selected(TRUE, BestSubset(vValue, b2.vfBest), "subset", b2.nBest) : b2 \in B2}
             : b1 \in ApproximateBestSubset(vValue, st.nTotalLower, nTargetValue, iterations)}
           : vValue \in SortDescending(st.vValue)}

SelectCoinsMinConf(nTargetValue, nSpendTime, nConfMine, nConfTheirs, vCoins) ==
    LET scans == {MinConfScan(shuffled, 1, nTargetValue, nSpendTime, nConfMine, nConfTheirs,
                      [exact |-> <<>>, vValue |-> <<>>, nTotalLower |-> 0,
                       coinLowestLarger |-> <<>>]) : shuffled \in Perms(vCoins)}
    IN UNION {MinConfAfterScan(st, nTargetValue) : st \in scans}

(***************************************************************************)
(* SelectSmallestCoins.                                                    *)
(***************************************************************************)
\* sort(vCoins.begin(), vCoins.end(), smallestcoincomp()): ascending by value
SortAscending(vCoins) ==
    {p \in Perms(vCoins) : \A a, b \in 1..Len(p) : a < b => p[a].nValue <= p[b].nValue}

RECURSIVE SmallestScan(_, _, _, _, _, _, _)
SmallestScan(vCoins, k, nTargetValue, nSpendTime, nConfMine, nConfTheirs, coins) ==
    IF k > Len(vCoins) THEN Selected(FALSE, coins, "smallest", -1)
    ELSE LET c == vCoins[k] IN
         IF ~PassesFilter(c, nSpendTime, nConfMine, nConfTheirs)
         THEN SmallestScan(vCoins, k + 1, nTargetValue, nSpendTime, nConfMine, nConfTheirs, coins)
         ELSE IF SumValues(coins \cup {c}) >= nTargetValue
         THEN Selected(TRUE, coins \cup {c}, "smallest", -1)
         ELSE SmallestScan(vCoins, k + 1, nTargetValue, nSpendTime, nConfMine, nConfTheirs,
                           coins \cup {c})

\* a selector that takes the candidates from the largest down
SelectLargestFirst(nTargetValue, nSpendTime, nConfMine, nConfTheirs, vCoins) ==
    {SmallestScan([k \in 1..Len(sorted) |-> sorted[Len(sorted) + 1 - k]], 1, nTargetValue,
                 nSpendTime,
                  nConfMine, nConfTheirs, {}) : sorted \in SortAscending(vCoins)}

SelectSmallestCoins(nTargetValue, nSpendTime, nConfMine, nConfTheirs, vCoins) ==
    {SmallestScan(sorted, 1, nTargetValue, nSpendTime, nConfMine, nConfTheirs, {}) :
        sorted \in SortAscending(vCoins)}

(***************************************************************************)
(* SelectCoins, given the list AvailableCoins produced.  fHasSelected:     *)
(* coin control names outputs (AvailableCoins has then kept only those).   *)
(***************************************************************************)
\* a || b over sets of possible results
OrElse(A, B) == {r \in A : r.ret} \cup (IF \E r \in A : ~r.ret THEN B ELSE {})

\* a SelectCoins that goes straight to the loosest thresholds
SelectLoosestOnly(nTargetValue, nSpendTime, vCoins, fHasSelected, contract) ==
    IF fHasSelected
    THEN {Selected(SumValues(Range(vCoins)) >= nTargetValue, Range(vCoins), "control", -1)}
    ELSE IF contract
    THEN SelectSmallestCoins(nTargetValue, nSpendTime, 0, 1, vCoins)
    ELSE SelectCoinsMinConf(nTargetValue, nSpendTime, 0, 1, vCoins)

SelectCoinsFrom(nTargetValue, nSpendTime, vCoins, fHasSelected, contract) ==
    IF fHasSelected
    THEN {Selected(SumValues(Range(vCoins)) >= nTargetValue, Range(vCoins), "control", -1)}
    ELSE IF contract
    THEN OrElse(SelectSmallestCoins(nTargetValue, nSpendTime, 1, 10, vCoins),
         OrElse(SelectSmallestCoins(nTargetValue, nSpendTime, 1, 1, vCoins),
                SelectSmallestCoins(nTargetValue, nSpendTime, 0, 1, vCoins)))
    ELSE OrElse(SelectCoinsMinConf(nTargetValue, nSpendTime, 1, 10, vCoins),
         OrElse(SelectCoinsMinConf(nTargetValue, nSpendTime, 1, 1, vCoins),
                SelectCoinsMinConf(nTargetValue, nSpendTime, 0, 1, vCoins)))

(***************************************************************************)
(* The ledger.  A transaction is its hash, its inputs (outpoints           *)
(* <<hash, n>>, n counted from 0 as in the code), its outputs (value, and  *)
(* whether the wallet owns the destination) and whether it is a coinstake. *)
(***************************************************************************)
TxOut(nValue, fMine) == [nValue |-> nValue, fMine |-> fMine]

\* a payment to the wallet with two owned outputs, funded by a foreign output
TxF ==
    [hash |-> "F", vin |-> << <<"E", 0>> >>, vout |-> <<TxOut(4, TRUE), TxOut(3, TRUE)>>,
     fCoinStake |-> FALSE]
\* a coinstake of the wallet that consumes F:0
TxS ==
    [hash |-> "S", vin |-> << <<"F", 0>> >>, vout |-> <<TxOut(0, FALSE), TxOut(4, TRUE)>>,
     fCoinStake |-> TRUE]
\* a payment to the wallet with three owned outputs
TxG ==
    [hash |-> "G", vin |-> << <<"E", 2>> >>,
     vout |-> <<TxOut(4, TRUE), TxOut(3, TRUE), TxOut(2, TRUE)>>,
     fCoinStake |-> FALSE]
\* a payment of the wallet to others that consumes S:1
TxP ==
    [hash |-> "P", vin |-> << <<"S", 1>> >>, vout |-> <<TxOut(1, FALSE)>>, fCoinStake |-> FALSE]
\* a transaction that does not involve the wallet
TxZ ==
    [hash |-> "Z", vin |-> << <<"E", 1>> >>, vout |-> <<TxOut(1, FALSE)>>,
     fCoinStake |-> FALSE]

\* the blocks a transaction can be found in; hashBlock 0 is the null hash
Blocks == {1}
\* the depth in the main chain of each block
BlockDepth(hashBlock) == IF hashBlock = 1 THEN 20 ELSE 1
\* the position of a transaction in its block
IndexInBlock(tx) == IF tx.hash = "F" THEN 0 ELSE 1

\* CWalletTx(pwallet, tx): a fresh ledger record of tx
CWalletTx(tx) ==
    [hash |-> tx.hash, vin |-> tx.vin, vout |-> tx.vout, fCoinStake |-> tx.fCoinStake,
     hashBlock |-> 0, nIndex |-> -1, fFromMe |-> FALSE,
     vfSpent |-> [k \in 1..Len(tx.vout) |-> FALSE], nOrderPos |-> -1]

\* the record mapWallet[hash] default-constructs for a hash it does not hold
EmptyWalletTx(hash) ==
    [hash |-> hash, vin |-> <<>>, vout |-> <<>>, fCoinStake |-> FALSE,
     hashBlock |-> 0, nIndex |-> -1, fFromMe |-> FALSE, vfSpent |-> <<>>, nOrderPos |-> -1]

SetMerkleBranch(wtx, tx, pblock) ==
    [wtx EXCEPT !.hashBlock = pblock, !.nIndex = IndexInBlock(tx)]

IsSpent(wtx, n) == n < Len(wtx.vfSpent) /\ wtx.vfSpent[n + 1]
MarkSpent(wtx, n) == [wtx EXCEPT !.vfSpent[n + 1] = TRUE]
MarkUnspent(wtx, n) == [wtx EXCEPT !.vfSpent[n + 1] = FALSE]
\* the bitmap with every flag of vfSpentNew added
UpdateSpent(wtx, vfSpentNew) ==
    [wtx EXCEPT !.vfSpent =
        [k \in 1..Len(wtx.vfSpent) |-> wtx.vfSpent[k] \/ (k <= Len(vfSpentNew) /\ vfSpentNew[k])]]

IsMine(txout) == txout.fMine
IsMineTx(tx) == \E k \in 1..Len(tx.vout) : IsMine(tx.vout[k])

\* GetDebit(txin): the value of the previous output if the ledger holds it
\* and the wallet owns it
GetDebit(mw, txin) ==
    IF txin[1] \in DOMAIN mw
    THEN LET prev == mw[txin[1]] IN
         IF txin[2] < Len(prev.vout) /\ IsMine(prev.vout[txin[2] + 1])
         THEN prev.vout[txin[2] + 1].nValue ELSE 0
    ELSE 0

IsFromMe(mw, tx) == \E k \in 1..Len(tx.vin) : GetDebit(mw, tx.vin[k]) > 0

\* one turn of the first loop of WalletUpdateSpent
\* a first loop that marks every output of the previous transaction
MarkEveryOutputOfPrev(mw, txin) ==
    IF txin[1] \in DOMAIN mw
    THEN [mw EXCEPT ![txin[1]].vfSpent = [k \in DOMAIN @ |-> TRUE]]
    ELSE mw

UpdateSpentOfInput(mw, txin) ==
    IF txin[1] \in DOMAIN mw
    THEN LET wtx == mw[txin[1]] IN
         IF txin[2] >= Len(wtx.vout) THEN mw
         ELSE IF ~IsSpent(wtx, txin[2]) /\ IsMine(wtx.vout[txin[2] + 1])
         THEN [mw EXCEPT ![txin[1]] = MarkSpent(wtx, txin[2])]
         ELSE mw
    ELSE mw

\* a first loop that marks nothing
SkipInputs(mw, vin, k) == mw

RECURSIVE UpdateSpentOfInputs(_, _, _)
UpdateSpentOfInputs(mw, vin, k) ==
    IF k > Len(vin) THEN mw
    ELSE UpdateSpentOfInputs(UpdateSpentOfInput(mw, vin[k]), vin, k + 1)

\* the second loop of WalletUpdateSpent: every owned output of tx itself
UnspendOwnOutputs(mw, tx) ==
    [mw EXCEPT ![tx.hash].vfSpent =
        [k \in 1..Len(tx.vout) |-> IF IsMine(tx.vout[k]) THEN FALSE ELSE @[k]]]

WalletUpdateSpent(mw, tx, fBlock) ==
    LET mw1 == UpdateSpentOfInputs(mw, tx.vin, 1) IN
    IF fBlock THEN UnspendOwnOutputs(mw1, tx) ELSE mw1

\* a merge that takes the block of the incoming record and leaves the
\* spent bitmap alone
MergeWithoutSpent(wtx, wtxIn) ==
    [wtx EXCEPT !.hashBlock = IF wtxIn.hashBlock # 0 THEN wtxIn.hashBlock ELSE @]

\* a merge that takes the block, the index and the from-me flag of the
\* incoming record as they are
MergeTakesIncoming(wtx, wtxIn) ==
    UpdateSpent([wtx EXCEPT !.hashBlock = wtxIn.hashBlock, !.nIndex = wtxIn.nIndex,
                            !.fFromMe = wtxIn.fFromMe], wtxIn.vfSpent)

\* the merge branch of AddToWallet
MergeWalletTx(wtx, wtxIn) ==
    LET w1 == IF wtxIn.hashBlock # 0 /\ wtxIn.hashBlock # wtx.hashBlock
              THEN [wtx EXCEPT !.hashBlock = wtxIn.hashBlock] ELSE wtx
        w2 == IF wtxIn.nIndex # -1 /\ wtxIn.nIndex # w1.nIndex
              THEN [w1 EXCEPT !.nIndex = wtxIn.nIndex] ELSE w1
        w3 == IF wtxIn.fFromMe /\ wtxIn.fFromMe # w2.fFromMe
              THEN [w2 EXCEPT !.fFromMe = wtxIn.fFromMe] ELSE w2
    IN UpdateSpent(w3, wtxIn.vfSpent)

\* fUpdated of the merge branch: a field was taken from the incoming record
\* or UpdateSpent set a flag
MergeUpdated(wtx, wtxIn) ==
    \/ wtxIn.hashBlock # 0 /\ wtxIn.hashBlock # wtx.hashBlock
    \/ wtxIn.nIndex # -1 /\ wtxIn.nIndex # wtx.nIndex
    \/ wtxIn.fFromMe /\ wtxIn.fFromMe # wtx.fFromMe
    \/ UpdateSpent(wtx, wtxIn.vfSpent).vfSpent # wtx.vfSpent

\* an insertion that hands out the counter's value and leaves the counter
AddWithoutCounting(w, wtxIn) ==
    LET hash == wtxIn.hash
        fInsertedNew == hash \notin DOMAIN w.mapWallet
        fUpdated == ~fInsertedNew /\ MergeUpdated(w.mapWallet[hash], wtxIn)
        mw1 == IF fInsertedNew
               THEN [h \in DOMAIN w.mapWallet \cup {hash} |->
                        IF h = hash THEN [wtxIn EXCEPT !.nOrderPos = w.nOrderPosNext]
                        ELSE w.mapWallet[h]]
               ELSE [w.mapWallet EXCEPT ![hash] = MergeWalletTx(@, wtxIn)]
    IN [mapWallet |-> WalletUpdateSpent(mw1, mw1[hash], wtxIn.hashBlock # 0),
        nOrderPosNext |-> w.nOrderPosNext,
        fUpdated |-> fUpdated,
        fWritten |-> fInsertedNew \/ fUpdated,
        ret |-> TRUE]

\* AddToWallet on the ledger w = [mapWallet, nOrderPosNext]; fWritten is
\* whether the record was handed to WriteToDisk
AddToWallet(w, wtxIn) ==
    LET hash == wtxIn.hash
        fInsertedNew == hash \notin DOMAIN w.mapWallet
        fUpdated == ~fInsertedNew /\ MergeUpdated(w.mapWallet[hash], wtxIn)
        mw1 == IF fInsertedNew
               THEN [h \in DOMAIN w.mapWallet \cup {hash} |->
                        IF h = hash THEN [wtxIn EXCEPT !.nOrderPos = w.nOrderPosNext]
                        ELSE w.mapWallet[h]]
               ELSE [w.mapWallet EXCEPT ![hash] = MergeWalletTx(@, wtxIn)]
    IN [mapWallet |-> WalletUpdateSpent(mw1, mw1[hash], wtxIn.hashBlock # 0),
        nOrderPosNext |-> IF fInsertedNew THEN w.nOrderPosNext + 1 ELSE w.nOrderPosNext,
        fUpdated |-> fUpdated,
        fWritten |-> fInsertedNew \/ fUpdated,
        ret |-> TRUE]

\* an observer that records whatever it is shown
AddWhateverIsSeen(w, tx, pblock, fUpdate) ==
    LET wtx == CWalletTx(tx) IN
    AddToWallet(w, IF pblock # 0 THEN SetMerkleBranch(wtx, tx, pblock) ELSE wtx)

\* an observer that never notes the block
AddWithoutBlock(w, tx, pblock, fUpdate) ==
    LET fExisted == tx.hash \in DOMAIN w.mapWallet IN
    IF fExisted /\ ~fUpdate
    THEN [mapWallet |-> w.mapWallet, nOrderPosNext |-> w.nOrderPosNext, ret |-> FALSE]
    ELSE IF fExisted \/ IsMineTx(tx) \/ IsFromMe(w.mapWallet, tx)
    THEN AddToWallet(w, CWalletTx(tx))
    ELSE [mapWallet |-> WalletUpdateSpent(w.mapWallet, tx, FALSE),
          nOrderPosNext |-> w.nOrderPosNext, ret |-> FALSE]

\* AddToWalletIfInvolvingMe(tx, pblock, fUpdate); pblock 0 is no block
AddToWalletIfInvolvingMe(w, tx, pblock, fUpdate) ==
    LET fExisted == tx.hash \in DOMAIN w.mapWallet IN
    IF fExisted /\ ~fUpdate
    THEN [mapWallet |-> w.mapWallet, nOrderPosNext |-> w.nOrderPosNext, ret |-> FALSE]
    ELSE IF fExisted \/ IsMineTx(tx) \/ IsFromMe(w.mapWallet, tx)
    THEN LET wtx == CWalletTx(tx) IN
         AddToWallet(w, IF pblock # 0 THEN SetMerkleBranch(wtx, tx, pblock) ELSE wtx)
    ELSE [mapWallet |-> WalletUpdateSpent(w.mapWallet, tx, FALSE),
          nOrderPosNext |-> w.nOrderPosNext, ret |-> FALSE]

\* mapWallet.erase(hash)
EraseTx(mw, hash) == [h \in DOMAIN mw \ {hash} |-> mw[h]]

\* EraseFromWallet(hash): the ledger afterwards
EraseFromWallet(mw, fBacked, hash) == IF fBacked THEN EraseTx(mw, hash) ELSE mw

\* what EraseFromWallet returns; fEraseTx is the answer of CWalletDB::EraseTx,
\* asked only when the record was in the map
EraseFromWalletReturns(mw, fBacked, hash, fEraseTx) ==
    fBacked /\ hash \in DOMAIN mw /\ fEraseTx

EmptyIndex == [h \in {} |-> <<>>]

\* DisableTransaction(tx): a disconnected coinstake of the wallet gives its
\* inputs back
RECURSIVE UnspendInputs(_, _, _)
UnspendInputs(mw, vin, k) ==
    IF k > Len(vin) THEN mw
    ELSE LET txin == vin[k]
             mw1 == IF txin[1] \in DOMAIN mw
                       /\ txin[2] < Len(mw[txin[1]].vout)
                       /\ IsMine(mw[txin[1]].vout[txin[2] + 1])
                    THEN [mw EXCEPT ![txin[1]] = MarkUnspent(@, txin[2])]
                    ELSE mw
         IN UnspendInputs(mw1, vin, k + 1)

DisableTransaction(mw, tx) ==
    IF ~tx.fCoinStake \/ ~IsFromMe(mw, tx) THEN mw ELSE UnspendInputs(mw, tx.vin, 1)

\* the vSpent vectors an index entry can hold in the audit scenario: a
\* position is spent when the vector reaches it and holds a disk position
SpentVectors == {<<>>, <<FALSE, TRUE>>, <<TRUE, FALSE>>}

\* the transaction index the chain database answers from, per indexed
\* hash the outputs a transaction of the chain has spent: the chain holds
\* nothing of the wallet, F alone, or F and S
TxIndexes ==
    IF scenario = "audit"
    THEN UNION {[hs -> SpentVectors] : hs \in SUBSET {"F", "S"}}
    ELSE {EmptyIndex,
          [h \in {"F"} |-> <<FALSE, FALSE>>],
          [h \in {"F", "S"} |-> IF h = "F" THEN <<TRUE, FALSE>> ELSE <<FALSE, FALSE>>]}

\* a comparison that does not ask whose output it is
SpentMismatchAnyOwner(pcoin, n, txindex) ==
    IF IsSpent(pcoin, n) /\ (Len(txindex) <= n \/ ~txindex[n + 1]) THEN "lost"
    ELSE IF ~IsSpent(pcoin, n) /\ (Len(txindex) > n /\ txindex[n + 1]) THEN "spent"
    ELSE "same"

\* FixSpentCoins, output n of pcoin: "lost" (spent here, unspent in the
\* index), "spent" (the reverse) or "same"
SpentMismatch(pcoin, n, txindex) ==
    IF ~IsMine(pcoin.vout[n + 1]) THEN "same"
    ELSE IF IsSpent(pcoin, n) /\ (Len(txindex) <= n \/ ~txindex[n + 1]) THEN "lost"
    ELSE IF ~IsSpent(pcoin, n) /\ (Len(txindex) > n /\ txindex[n + 1]) THEN "spent"
    ELSE "same"

\* the outputs FixSpentCoins reports, as <<hash, n, kind>>
Mismatches(mw, txdb) ==
    {m \in UNION {{<<h, k - 1, SpentMismatch(mw[h], k - 1, txdb[h])>> : k \in 1..Len(mw[h].vout)} :
                    h \in DOMAIN mw \cap DOMAIN txdb} : m[3] # "same"}

\* the sum of the values of the reported outputs
RECURSIVE ValueInQuestion(_, _)
ValueInQuestion(mw, found) ==
    IF found = {} THEN 0
    ELSE LET m == CHOOSE x \in found : TRUE IN
         mw[m[1]].vout[m[2] + 1].nValue + ValueInQuestion(mw, found \ {m})

\* a repair that gives lost coins back and marks nothing spent
FixLostCoinsOnly(mw, txdb, fCheckOnly) ==
    LET found == Mismatches(mw, txdb) IN
    [mapWallet |->
        IF fCheckOnly THEN mw
        ELSE [h \in DOMAIN mw |->
                [mw[h] EXCEPT !.vfSpent =
                    [k \in 1..Len(mw[h].vfSpent) |->
                        IF <<h, k - 1, "lost">> \in found THEN FALSE ELSE @[k]]]],
     nMismatchFound |-> Cardinality(found),
     nBalanceInQuestion |-> ValueInQuestion(mw, found),
     marked |-> {}]

FixSpentCoins(mw, txdb, fCheckOnly) ==
    LET found == Mismatches(mw, txdb) IN
    [mapWallet |->
        IF fCheckOnly THEN mw
        ELSE [h \in DOMAIN mw |->
                [mw[h] EXCEPT !.vfSpent =
                    [k \in 1..Len(mw[h].vfSpent) |->
                        IF <<h, k - 1, "lost">> \in found THEN FALSE
                        ELSE IF <<h, k - 1, "spent">> \in found THEN TRUE
                        ELSE @[k]]]],
     nMismatchFound |-> Cardinality(found),
     nBalanceInQuestion |-> ValueInQuestion(mw, found),
     marked |-> IF fCheckOnly THEN {} ELSE {<<m[1], m[2]>> : m \in {x \in found : x[3] = "spent"}}]

\* a scan that updates the records the ledger holds already
RECURSIVE ScanWithUpdate(_, _, _, _)
ScanWithUpdate(w, chain, fUpdate, ret) ==
    IF chain = <<>> THEN [mapWallet |-> w.mapWallet, nOrderPosNext |-> w.nOrderPosNext, ret |-> ret]
    ELSE CHOOSE scanned \in
             {ScanWithUpdate([mapWallet |-> r.mapWallet, nOrderPosNext |-> r.nOrderPosNext],
                             Tail(chain), fUpdate, IF r.ret THEN ret + 1 ELSE ret) :
                 r \in {AddToWalletIfInvolvingMe(w, Head(chain), 1, TRUE)}} : TRUE

\* ScanForWalletTransactions(pindexStart, fUpdate) over the transactions of
\* the chain in their order, all in block 1; ret counts the calls of
\* AddToWalletIfInvolvingMe that returned true
RECURSIVE ScanForWalletTransactions(_, _, _, _)
ScanForWalletTransactions(w, chain, fUpdate, ret) ==
    IF chain = <<>> THEN [mapWallet |-> w.mapWallet, nOrderPosNext |-> w.nOrderPosNext, ret |-> ret]
    ELSE CHOOSE scanned \in
             {ScanForWalletTransactions([mapWallet |-> r.mapWallet, nOrderPosNext |-> r.nOrderPosNext],
                                        Tail(chain), fUpdate, IF r.ret THEN ret + 1 ELSE ret) :
                 r \in {AddToWalletIfInvolvingMe(w, Head(chain), 1, fUpdate)}} : TRUE

\* the default of the fUpdate argument of ScanForWalletTransactions
fUpdateDefault == FALSE

\* ReacceptWalletTransactions, the outputs of record wtx that the pass over
\* the ledger marks spent: unspent here, spent in the index and owned
FoundSpent(wtx, txdb) ==
    IF wtx.fCoinStake /\ IsSpent(wtx, 1) THEN {}
    ELSE IF wtx.hash \notin DOMAIN txdb THEN {}
    ELSE IF Len(txdb[wtx.hash]) # Len(wtx.vout) THEN {}
    ELSE {i \in 0..(Len(wtx.vout) - 1) :
            ~IsSpent(wtx, i) /\ txdb[wtx.hash][i + 1] /\ IsMine(wtx.vout[i + 1])}

\* ReacceptWalletTransactions, the for loop over mapWallet: the ledger
\* afterwards and the outputs whose spenders went to vMissingTx
ReacceptPass(mw, txdb) ==
    [mapWallet |-> [h \in DOMAIN mw |->
                      [mw[h] EXCEPT !.vfSpent =
                          [k \in 1..Len(mw[h].vfSpent) |->
                              (k - 1) \in FoundSpent(mw[h], txdb) \/ @[k]]]],
     vMissingTx |-> UNION {{<<h, i>> : i \in FoundSpent(mw[h], txdb)} : h \in DOMAIN mw}]

\* ResendWalletTransactions: the records RevalidateTransaction rejects are
\* erased from the ledger and dropped from the mempool
RECURSIVE EraseAll(_, _, _)
EraseAll(mw, fBacked, hashes) ==
    IF hashes = {} THEN mw
    ELSE LET h == CHOOSE x \in hashes : TRUE IN
         EraseAll(EraseFromWallet(mw, fBacked, h), fBacked, hashes \ {h})

(***************************************************************************)
(* Chain facts about a ledger record.                                      *)
(***************************************************************************)
GetDepthInMainChain(wtx) == IF wtx.hashBlock = 0 THEN 0 ELSE BlockDepth(wtx.hashBlock)

\* the maturity depth of coinstakes, scaled down
nCoinbaseMaturity == 5

Max(a, b) == IF a >= b THEN a ELSE b
Min(a, b) == IF a <= b THEN a ELSE b

GetBlocksToMaturity(wtx) ==
    IF ~wtx.fCoinStake THEN 0
    ELSE Max(0, (nCoinbaseMaturity + 10) - GetDepthInMainChain(wtx))

\* confirmed, or unconfirmed and paid for by the wallet itself
IsTrusted(mw, wtx) == GetDepthInMainChain(wtx) >= 1 \/ IsFromMe(mw, wtx)

\* the smallest output value the wallet will spend
nMinimumInputValue == 0

\* the time of every transaction of the model, and of every spend
TxTime == 1

\* the outputs AvailableCoins(vCoins, true, NULL, false) offers
AvailableOutputs(mw) ==
    {[hash |-> h, i |-> k - 1, nValue |-> mw[h].vout[k].nValue,
      nDepth |-> GetDepthInMainChain(mw[h]), fFromMe |-> IsFromMe(mw, mw[h]), nTime |-> TxTime] :
        <<h, k>> \in {hk \in UNION {{<<x, j>> : j \in 1..Len(mw[x].vout)} : x \in DOMAIN mw} :
            /\ IsTrusted(mw, mw[hk[1]])
            /\ GetBlocksToMaturity(mw[hk[1]]) = 0
            /\ ~IsSpent(mw[hk[1]], hk[2] - 1)
            /\ IsMine(mw[hk[1]].vout[hk[2]])
            /\ mw[hk[1]].vout[hk[2]].nValue >= nMinimumInputValue}}

\* a set as a sequence, in some order
RECURSIVE SeqOf(_)
SeqOf(S) == IF S = {} THEN <<>> ELSE LET x == CHOOSE y \in S : TRUE IN <<x>> \o SeqOf(S \ {x})

AvailableCoins(mw) == SeqOf(AvailableOutputs(mw))

(***************************************************************************)
(* Staking.  The wallet is given as the list of its unspent owned outputs  *)
(* of a value above 0, each with the depth, origin, kind and time of its   *)
(* transaction.                                                            *)
(***************************************************************************)
nStakeMinAge == 1

\* AvailableCoinsForStaking: the outputs that count towards balance_out
CountsForBalance(c) == c.nDepth > 0 \/ (c.fFromMe /\ (c.fDepsConfirmed \/ c.fCoinStake))

\* a filter that does not ask for the stake age
CanStakeAtAnyAge(c, nSpendTime) ==
    /\ CountsForBalance(c)
    /\ IF c.fCoinStake THEN ~(Max(0, (nCoinbaseMaturity + 10) - c.nDepth) > 0)
                       ELSE ~(c.nDepth < 1)
    /\ c.nValue >= nMinimumInputValue

\* AvailableCoinsForStaking: the outputs handed on as vCoins
CanStake(c, nSpendTime) ==
    /\ CountsForBalance(c)
    /\ ~(c.nTime + nStakeMinAge > nSpendTime)
    /\ IF c.fCoinStake THEN ~(Max(0, (nCoinbaseMaturity + 10) - c.nDepth) > 0)
                       ELSE ~(c.nDepth < 1)
    /\ c.nValue >= nMinimumInputValue

\* balance_out and vCoins after AvailableCoinsForStaking, which adds to the
\* balance_out it is handed
AvailableCoinsForStaking(wallet, nSpendTime, balance_out) ==
    [vCoins |-> SelectSeq(wallet, LAMBDA c : CanStake(c, nSpendTime)),
     balance_out |-> balance_out + SumValues({c \in Range(wallet) : CountsForBalance(c)})]

\* what SelectCoinsForStaking leaves in its reference arguments
Staking(ret, vCoinsRet, not_staking_error, balance_out) ==
    [ret |-> ret, vCoinsRet |-> vCoinsRet, not_staking_error |-> not_staking_error,
     balance_out |-> balance_out]

\* a selection that does not look at the reserve
StakeWithoutReserve(wallet, nSpendTime, nReserveBalance, vCoinsRet, not_staking_error, balance_in, fMiner) ==
    LET a == AvailableCoinsForStaking(wallet, nSpendTime, balance_in)
        Reason(e) == IF fMiner THEN e ELSE not_staking_error
        chosen == SelectSeq(a.vCoins, LAMBDA c : a.balance_out >= c.nValue)
    IN IF a.balance_out <= 0 THEN {Staking(FALSE, vCoinsRet, Reason("NO_COINS"), a.balance_out)}
       ELSE IF a.vCoins = <<>>
       THEN {Staking(FALSE, vCoinsRet, Reason("NO_MATURE_COINS"), a.balance_out)}
       ELSE {Staking(TRUE, [k \in 1..Len(q) |-> OutPoint(q[k])], not_staking_error, a.balance_out) :
                q \in IF fMiner THEN Perms(chosen) ELSE {chosen}}

\* SelectCoinsForStaking(nSpendTime, vCoinsRet, not_staking_error,
\* balance_out, fMiner): the possible outcomes (the miner's result is
\* shuffled)
SelectCoinsForStaking(wallet, nSpendTime, nReserveBalance, vCoinsRet, not_staking_error, balance_in, fMiner) ==
    LET a == AvailableCoinsForStaking(wallet, nSpendTime, balance_in)
        Reason(e) == IF fMiner THEN e ELSE not_staking_error
        BalanceToConsider == a.balance_out - nReserveBalance
        chosen == SelectSeq(a.vCoins, LAMBDA c : BalanceToConsider >= c.nValue)
    IN IF a.balance_out <= 0 THEN {Staking(FALSE, vCoinsRet, Reason("NO_COINS"), a.balance_out)}
       ELSE IF BalanceToConsider <= 0
       THEN {Staking(FALSE, vCoinsRet, Reason("ENTIRE_BALANCE_RESERVED"), a.balance_out)}
       ELSE IF a.vCoins = <<>>
       THEN {Staking(FALSE, vCoinsRet, Reason("NO_MATURE_COINS"), a.balance_out)}
       ELSE IF chosen = <<>>
       THEN {Staking(FALSE, <<>>, Reason("NO_UTXOS_AVAILABLE_DUE_TO_RESERVE"), a.balance_out)}
       ELSE {Staking(TRUE, [k \in 1..Len(q) |-> OutPoint(q[k])], not_staking_error, a.balance_out) :
                q \in IF fMiner THEN Perms(chosen) ELSE {chosen}}

(***************************************************************************)
(* Balances.  The wallet is given as the list of its records, each with    *)
(* its available credit (nValue), whether it is final, its depth, origin   *)
(* and whether what it spends is confirmed.                                *)
(***************************************************************************)
IsFinalTx(wtx) == wtx.fFinal
IsInMainChain(wtx) == wtx.nDepth > 0
\* CMerkleTx::IsConfirmed
IsConfirmed(wtx) ==
    IsFinalTx(wtx) /\ (wtx.nDepth >= 1 \/ (wtx.fFromMe /\ wtx.fDepsConfirmed))

\* the records GetUnconfirmedBalance adds up
CountsAsUnconfirmed(pcoin) ==
    ~IsFinalTx(pcoin) \/ (~IsConfirmed(pcoin) /\ ~pcoin.fFromMe /\ IsInMainChain(pcoin))

GetUnconfirmedBalance(wallet) == SumValues({pcoin \in Range(wallet) : CountsAsUnconfirmed(pcoin)})

\* SelectCoins(nTargetValue, nSpendTime, ..., coinControl = NULL, contract)
SelectCoins(mw, nTargetValue, nSpendTime, contract) ==
    SelectCoinsFrom(nTargetValue, nSpendTime, AvailableCoins(mw), FALSE, contract)

(***************************************************************************)
(* The key pool.  keys = [setKeyPool, poolDB, nKeys]: the indices in the   *)
(* pool, the pool entries of the wallet database (index -> key) and the    *)
(* number of keys generated so far.                                        *)
(***************************************************************************)
RECURSIVE TopUpKeyPool(_, _)
TopUpKeyPool(keys, nTargetSize) ==
    IF Cardinality(keys.setKeyPool) >= nTargetSize + 1 THEN keys
    ELSE LET nEnd == IF keys.setKeyPool = {} THEN 1
                     ELSE (CHOOSE m \in keys.setKeyPool : \A x \in keys.setKeyPool : x <= m) + 1
             newKey == keys.nKeys + 1
         IN TopUpKeyPool(
                [setKeyPool |-> keys.setKeyPool \cup {nEnd},
                 poolDB |-> [x \in DOMAIN keys.poolDB \cup {nEnd} |->
                                IF x = nEnd THEN newKey ELSE keys.poolDB[x]],
                 nKeys |-> newKey],
                nTargetSize)

\* ReserveKeyFromKeyPool: the pool afterwards, the index and the key taken
\* (index -1: the pool is empty); fThrew: the database has no such entry
ReserveKeyFromKeyPool(keys, nTargetSize, fLocked) ==
    LET k1 == IF fLocked THEN keys ELSE TopUpKeyPool(keys, nTargetSize) IN
    IF k1.setKeyPool = {} THEN [keys |-> k1, nIndex |-> -1, vchPubKey |-> 0, fThrew |-> FALSE]
    ELSE LET nIndex == CHOOSE m \in k1.setKeyPool : \A x \in k1.setKeyPool : m <= x IN
         [keys |-> [k1 EXCEPT !.setKeyPool = @ \ {nIndex}],
          nIndex |-> nIndex,
          vchPubKey |-> IF nIndex \in DOMAIN k1.poolDB THEN k1.poolDB[nIndex] ELSE 0,
          fThrew |-> nIndex \notin DOMAIN k1.poolDB]

\* CWallet::KeepKey(nIndex)
KeepKey(keys, fBacked, nIndex) ==
    IF fBacked THEN [keys EXCEPT !.poolDB = [x \in DOMAIN @ \ {nIndex} |-> @[x]]] ELSE keys

\* CWallet::ReturnKey(nIndex)
ReturnKey(keys, nIndex) == [keys EXCEPT !.setKeyPool = @ \cup {nIndex}]

\* a CReserveKey holding nothing
NoReserve == [nIndex |-> -1, vchPubKey |-> 0]

\* the default key of the wallet, when it has one
DefaultKey == 0

\* CReserveKey::GetReservedKey: the pool and the reservekey afterwards;
\* ret "threw" when ReserveKeyFromKeyPool threw
GetReservedKey(keys, reservekey, nTargetSize, fLocked, fDefaultKeyValid) ==
    IF reservekey.nIndex = -1
    THEN LET r == ReserveKeyFromKeyPool(keys, nTargetSize, fLocked) IN
         IF r.fThrew
         THEN [keys |-> r.keys, reservekey |-> [nIndex |-> r.nIndex, vchPubKey |-> 0],
               ret |-> "threw"]
         ELSE IF r.nIndex # -1
         THEN [keys |-> r.keys, reservekey |-> [nIndex |-> r.nIndex, vchPubKey |-> r.vchPubKey],
               ret |-> "true"]
         ELSE IF fDefaultKeyValid
         THEN [keys |-> r.keys, reservekey |-> [nIndex |-> -1, vchPubKey |-> DefaultKey],
               ret |-> "true"]
         ELSE [keys |-> r.keys, reservekey |-> reservekey, ret |-> "false"]
    ELSE [keys |-> keys, reservekey |-> reservekey, ret |-> "true"]

\* a KeepKey that hands the index back to the pool instead
ReserveKeyBackToPool(keys, fBacked, reservekey) ==
    IF reservekey.nIndex # -1 THEN ReturnKey(keys, reservekey.nIndex) ELSE keys

\* CReserveKey::KeepKey
ReserveKeepKey(keys, fBacked, reservekey) ==
    IF reservekey.nIndex # -1 THEN KeepKey(keys, fBacked, reservekey.nIndex) ELSE keys

\* CReserveKey::ReturnKey
ReserveReturnKey(keys, reservekey) ==
    IF reservekey.nIndex # -1 THEN ReturnKey(keys, reservekey.nIndex) ELSE keys

(***************************************************************************)
(* CreateTransaction.  A request is the payment (one payee), the fee       *)
(* setting nTransactionFee, the caller's fixed input set, the change       *)
(* option, whether the transaction carries a contract, and the state of    *)
(* the key store at the call: "unlocked", "locked", or "bare" (locked and  *)
(* without a valid default key).                                           *)
(***************************************************************************)
\* the minimum fee per started kilobyte, in half cents
MIN_TX_FEE == 1
GetBaseFee(wtxNew) == MIN_TX_FEE

\* serialized sizes, scaled: an input weighs four outputs
TxInBytes == 400
TxOutBytes == 100
GetSerializeSize(wtxNew) == TxInBytes * Len(wtxNew.vin) + TxOutBytes * Len(wtxNew.vout)
\* three inputs do not fit
MAX_STANDARD_TX_SIZE == 1300

GetMinFee(wtxNew, nBytes) ==
    LET nMinFee == (1 + nBytes \div 1000) * GetBaseFee(wtxNew) IN
    IF \E k \in 1..Len(wtxNew.vout) : wtxNew.vout[k].nValue < CENT
    THEN Max(nMinFee, GetBaseFee(wtxNew)) ELSE nMinFee

\* the vout with the change output inserted at position pos (from 0)
InsertAt(vout, pos, txout) ==
    [k \in 1..(Len(vout) + 1) |->
        IF k <= pos THEN vout[k] ELSE IF k = pos + 1 THEN txout ELSE vout[k - 1]]

\* the transaction under construction
NewTx(hash, coins, vout) ==
    [hash |-> hash, vin |-> SeqOf(coins), vout |-> vout,
     fCoinStake |-> FALSE, hashBlock |-> 0, nIndex |-> -1, fFromMe |-> TRUE,
     vfSpent |-> [k \in 1..Len(vout) |-> FALSE], nOrderPos |-> -1]

NoTx == [hash |-> "none"]

\* one pass of the fee loop as the fee-estimation log shows it: the fee
\* guess the pass started with, the fee and the change after the sub-cent
\* adjustment, where the change went, and the steps the pass has taken
Iteration(nFeeRet) ==
    [nFeeGuess |-> nFeeRet, nFeeRet |-> nFeeRet, nValueIn |-> 0, nChange |-> 0,
     scriptChange |-> "none", steps |-> <<>>]

\* the log with one more step of the current pass, and the fields of upd
Logged(hist, step, upd) ==
    LET last == hist[Len(hist)] IN
    [hist EXCEPT ![Len(hist)] =
        [f \in DOMAIN last |-> IF f = "steps" THEN Append(last.steps, step)
                               ELSE IF f \in DOMAIN upd THEN upd[f] ELSE last[f]]]

NoUpdate == [steps |-> <<>>]

\* what CreateTransaction leaves behind
Built(ret, err, wtxNew, nFeeRet, keys, reservekey, hist) ==
    [ret |-> ret, err |-> err, wtxNew |-> wtxNew, nFeeRet |-> nFeeRet, keys |-> keys,
     reservekey |-> reservekey, hist |-> hist]

\* a CreateTransaction that marks the outputs it selected as spent
LedgerWithInputsSpent(w, wtxNew) ==
    IF wtxNew = NoTx THEN w
    ELSE [w EXCEPT !.mapWallet = UpdateSpentOfInputs(@, wtxNew.vin, 1)]

\* the ledger w = [mapWallet, nOrderPosNext] after CreateTransaction has
\* built wtxNew from it: the call reads the ledger and writes the key pool
LedgerAfterCreate(w, wtxNew) == w

\* a change that forgets the fee
ChangeWithoutFee(nValueIn, nValueOut, nFeeRet) == nValueIn - nValueOut

\* the change of a pass before the sub-cent adjustment
ChangeOf(nValueIn, nValueOut, nFeeRet) == nValueIn - nValueOut - nFeeRet

\* a provided input set that is never found short
NeverShort(provided_coin_set, nChange) == FALSE

\* the provided input set cannot cover the outputs and the fee guess
ProvidedSetShort(provided_coin_set, nChange) == provided_coin_set /\ nChange < 0

\* an adjustment that takes from the fee what it should add to it
MoveFeeToSubCentChange(wtxNew, nChange, nFeeRet) ==
    IF nFeeRet < GetBaseFee(wtxNew) /\ nChange > 0 /\ nChange < CENT
    THEN LET nMoveToFee == Min(nChange, GetBaseFee(wtxNew) - nFeeRet) IN
         <<nChange + nMoveToFee, nFeeRet - nMoveToFee>>
    ELSE <<nChange, nFeeRet>>

\* no adjustment at all
KeepSubCentChange(wtxNew, nChange, nFeeRet) == <<nChange, nFeeRet>>

\* the change of one pass of the loop: <<nChange, nFeeRet>> after the
\* sub-cent adjustment
MoveSubCentChangeToFee(wtxNew, nChange, nFeeRet) ==
    IF nFeeRet < GetBaseFee(wtxNew) /\ nChange > 0 /\ nChange < CENT
    THEN LET nMoveToFee == Min(nChange, GetBaseFee(wtxNew) - nFeeRet) IN
         <<nChange - nMoveToFee, nFeeRet + nMoveToFee>>
    ELSE <<nChange, nFeeRet>>

\* the value of a set of outputs of the ledger, named by their outpoints
RECURSIVE ValueOfOutputs(_, _)
ValueOfOutputs(mw, coins) ==
    IF coins = {} THEN 0
    ELSE LET o == CHOOSE x \in coins : TRUE IN
         mw[o[1]].vout[o[2] + 1].nValue + ValueOfOutputs(mw, coins \ {o})

RECURSIVE CreateLoop(_, _, _, _, _, _, _, _)

\* a pass that checks the size and the fee before it signs, and collects
\* the supporting transactions before it signs
CheckThenSign(mw, hash, req, nTargetSize, coins, vout, nFeeRet, keys, reservekey, hist) ==
    LET wtxNew == NewTx(hash, coins, vout)
        nBytes == GetSerializeSize(wtxNew)
        nPayFee == req.nTransactionFee * (1 + nBytes \div 1000)
        nMinFee == GetMinFee(wtxNew, nBytes)
        checked == Logged(Logged(hist, "SizeCheck", NoUpdate), "CheckFee", NoUpdate)
        supported == Logged(checked, "AddSupportingTransactions", NoUpdate)
        signed == Logged(supported, "Sign", NoUpdate)
    IN IF nBytes >= MAX_STANDARD_TX_SIZE
       THEN {Built(FALSE, "size", NoTx, nFeeRet, keys, reservekey,
                   Logged(hist, "SizeCheck", NoUpdate))}
       ELSE IF nFeeRet < Max(nPayFee, nMinFee)
       THEN CreateLoop(mw, hash, req, nTargetSize, Max(nPayFee, nMinFee), keys, reservekey,
                       checked)
       ELSE IF req.keystore # "unlocked"
       THEN {Built(FALSE, "sign", NoTx, nFeeRet, keys, reservekey, signed)}
       ELSE {Built(TRUE, "", wtxNew, nFeeRet, keys, reservekey, signed)}

\* the end of one pass: vin, signing, size and fee checks
CreatePassEnd(mw, hash, req, nTargetSize, coins, vout, nFeeRet, keys, reservekey, hist) ==
    LET wtxNew == NewTx(hash, coins, vout)
        nBytes == GetSerializeSize(wtxNew)
        nPayFee == req.nTransactionFee * (1 + nBytes \div 1000)
        nMinFee == GetMinFee(wtxNew, nBytes)
        signed == Logged(hist, "Sign", NoUpdate)
        sized == Logged(signed, "SizeCheck", NoUpdate)
        checked == Logged(sized, "CheckFee", NoUpdate)
    IN IF req.keystore # "unlocked"
       THEN {Built(FALSE, "sign", NoTx, nFeeRet, keys, reservekey, signed)}
       ELSE IF nBytes >= MAX_STANDARD_TX_SIZE
       THEN {Built(FALSE, "size", NoTx, nFeeRet, keys, reservekey, sized)}
       ELSE IF nFeeRet < Max(nPayFee, nMinFee)
       THEN CreateLoop(mw, hash, req, nTargetSize, Max(nPayFee, nMinFee), keys, reservekey,
                       checked)
       ELSE {Built(TRUE, "", wtxNew, nFeeRet, keys, reservekey,
                   Logged(checked, "AddSupportingTransactions", NoUpdate))}

\* one pass after the inputs are known: change, change destination
CreatePass(mw, hash, req, nTargetSize, coins, setCoins_out, nValueIn, nFeeRet0, keys, reservekey, hist0) ==
    LET payees == <<TxOut(req.nValue, FALSE)>>
        nChange0 == ChangeOf(nValueIn, req.nValue, nFeeRet0)
        adj == MoveSubCentChangeToFee(NoTx, nChange0, nFeeRet0)
        nChange == adj[1]
        nFeeRet == adj[2]
        hist == Logged(hist0, "ComputeChange",
                       [nValueIn |-> nValueIn, nChange |-> nChange, nFeeRet |-> nFeeRet])
        to(script) == Logged(hist, "ChangeOutput", [scriptChange |-> script])
    IN IF ProvidedSetShort(req.setCoins_in # {}, nChange0)
       THEN {Built(FALSE, "shortfall", NoTx, nFeeRet0, keys, reservekey,
                   Logged(hist0, "ComputeChange", [nValueIn |-> nValueIn, nChange |-> nChange0]))}
       ELSE IF nChange > 0
       THEN IF req.destChange # "none"
            THEN UNION {CreatePassEnd(mw, hash, req, nTargetSize, coins,
                                      InsertAt(payees, pos, TxOut(nChange, TRUE)),
                                      nFeeRet, keys, reservekey, to("destChange")) :
                            pos \in 0..Len(payees)}
            ELSE IF req.change_back_to_input_address
            THEN UNION {CreatePassEnd(mw, hash, req, nTargetSize, coins,
                                      InsertAt(payees, pos, TxOut(nChange, setCoins_out # {})),
                                      nFeeRet, keys, reservekey,
                                      to(IF setCoins_out # {} THEN "input" ELSE "empty")) :
                            pos \in 0..Len(payees)}
            ELSE LET g == GetReservedKey(keys, reservekey, nTargetSize,
                                         req.keystore # "unlocked", req.keystore # "bare") IN
                 IF g.ret = "threw"
                 THEN {Built(FALSE, "threw", NoTx, nFeeRet, g.keys, g.reservekey,
                             Logged(hist, "GetReservedKey", NoUpdate))}
                 ELSE IF g.ret = "false"
                 THEN {Built(FALSE, "keypool", NoTx, nFeeRet, g.keys, g.reservekey,
                             Logged(hist, "GetReservedKey", NoUpdate))}
                 ELSE UNION {CreatePassEnd(mw, hash, req, nTargetSize, coins,
                                           InsertAt(payees, pos, TxOut(nChange, TRUE)),
                                           nFeeRet, g.keys, g.reservekey, to("key")) :
                                pos \in 0..Len(payees)}
       ELSE CreatePassEnd(mw, hash, req, nTargetSize, coins, payees, nFeeRet,
                          ReserveReturnKey(keys, reservekey), NoReserve, hist)

\* the fee loop, entered with the fee guess nFeeRet
CreateLoop(mw, hash, req, nTargetSize, nFeeRet, keys, reservekey, hist0) ==
    LET hist == Logged(Append(hist0, Iteration(nFeeRet)),
                       IF req.setCoins_in # {} THEN "ProvidedCoins" ELSE "SelectCoins",
                       NoUpdate) IN
    IF req.setCoins_in # {}
    THEN CreatePass(mw, hash, req, nTargetSize, req.setCoins_in, {},
                    ValueOfOutputs(mw, req.setCoins_in), nFeeRet, keys, reservekey, hist)
    ELSE UNION {
            IF r.ret
            THEN CreatePass(mw, hash, req, nTargetSize, r.setCoinsRet, r.setCoinsRet,
                            r.nValueRet, nFeeRet, keys, reservekey, hist)
            ELSE {Built(FALSE, "select", NoTx, nFeeRet, keys, reservekey, hist)}
            : r \in SelectCoins(mw, req.nValue + nFeeRet, TxTime, req.contract)}

CreateTransaction(mw, hash, req, nTargetSize, keys, reservekey) ==
    IF req.nValue < 0 THEN {Built(FALSE, "value", NoTx, 0, keys, reservekey, <<>>)}
    ELSE CreateLoop(mw, hash, req, nTargetSize, req.nTransactionFee, keys, reservekey, <<>>)

(***************************************************************************)
(* CommitTransaction.                                                      *)
(***************************************************************************)
\* the loop "mark old coins as spent": mapWallet[prevout.hash] creates an
\* empty record for a hash the ledger does not hold, and MarkSpent of an
\* output the record does not have throws
RECURSIVE MarkOldCoinsSpent(_, _, _)
MarkOldCoinsSpent(mw, vin, k) ==
    IF k > Len(vin) THEN [mapWallet |-> mw, fThrew |-> FALSE]
    ELSE LET txin == vin[k]
             mw1 == IF txin[1] \in DOMAIN mw THEN mw
                    ELSE [h \in DOMAIN mw \cup {txin[1]} |->
                            IF h = txin[1] THEN EmptyWalletTx(h) ELSE mw[h]]
         IN IF txin[2] >= Len(mw1[txin[1]].vout)
            THEN [mapWallet |-> mw1, fThrew |-> TRUE]
            ELSE MarkOldCoinsSpent([mw1 EXCEPT ![txin[1]] = MarkSpent(@, txin[2])], vin, k + 1)

\* the inputs the transactions of the mempool consume
MempoolInputs(pool, callers) == UNION {Range(callers[m].wtxNew.vin) : m \in pool}

\* AcceptToMemoryPool must refuse a transaction that conflicts with the pool
ConflictsWithMempool(pool, callers, wtxNew) ==
    Range(wtxNew.vin) \cap MempoolInputs(pool \ {wtxNew.hash}, callers) # {}

\* the steps of CommitTransaction after the development-build check, in the
\* order of the code; fAccept is the answer of AcceptToMemoryPool
CommitTransaction(w, fBacked, keys, reservekey, wtxNew, fAccept) ==
    LET keys1 == ReserveKeepKey(keys, fBacked, reservekey)
        added == AddToWallet(w, wtxNew)
        marked == MarkOldCoinsSpent(added.mapWallet, wtxNew.vin, 1)
        ledger == <<"KeepKey", "AddToWallet", "MarkSpent">>
    IN [mapWallet |-> marked.mapWallet, nOrderPosNext |-> added.nOrderPosNext, keys |-> keys1,
        ret |-> IF marked.fThrew THEN "threw" ELSE IF fAccept THEN "true" ELSE "false",
        steps |-> IF marked.fThrew THEN ledger
                  ELSE IF fAccept THEN ledger \o <<"AcceptToMemoryPool", "Relay">>
                  ELSE ledger \o <<"AcceptToMemoryPool">>]

(***************************************************************************)
(* The key vault.  The vault is the key store of the wallet: whether it   *)
(* is crypted (fUseCrypto), the session master key (vMasterKey, NoKey when *)
(* the store is locked), the master key the keys are encrypted under       *)
(* (keysUnder, NoKey for plaintext keys), the master-key records in the    *)
(* order of their ids, whether an HD chain is set (with its counter, the   *)
(* child indices the key store holds and, as history, the indices          *)
(* GenerateNewKey has returned), and whether the process still runs.  A    *)
(* master key is named by a positive number; a passphrase by a letter.     *)
(* In the ledger scenarios the state of the key store is an input of each  *)
(* request and the vault stays as constructed.                             *)
(***************************************************************************)
NoKey == 0
\* what Decrypt yields when a wrong key happens to leave a valid padding
GarbageKey == -1

Passphrases == {"a", "b", "c"}

\* CWallet as constructed
NewVault(fHD) ==
    [fUseCrypto |-> FALSE, vMasterKey |-> NoKey, keysUnder |-> NoKey, mapMasterKeys |-> <<>>,
     nMasterKeyMaxID |-> 0, fHD |-> fHD, strWalletPassphrase |-> "", running |-> TRUE,
     nExternalChainCounter |-> 0, mapKeys |-> {}, issued |-> {}]

IsCrypted(v) == v.fUseCrypto
IsLocked(v) == v.fUseCrypto /\ v.vMasterKey = NoKey

\* CCryptoKeyStore::Lock: the session master key is discarded
Lock(v) == IF IsCrypted(v) THEN [v EXCEPT !.vMasterKey = NoKey] ELSE v

\* CCryptoKeyStore::Unlock(vMasterKeyIn): the key must decrypt the keys
KeyStoreUnlock(v, vMasterKeyIn) ==
    IF IsCrypted(v) /\ vMasterKeyIn = v.keysUnder
    THEN [ret |-> TRUE, vault |-> [v EXCEPT !.vMasterKey = vMasterKeyIn]]
    ELSE [ret |-> FALSE, vault |-> v]

\* CCrypter::SetKeyFromPassphrase and Decrypt of a record: the master key
\* under the record's passphrase; under another passphrase the padding
\* check fails (NoKey), or passes by chance and yields garbage
Decrypt(kMasterKey, strWalletPassphrase, fPaddingPasses) ==
    IF strWalletPassphrase = kMasterKey.pass THEN kMasterKey.key
    ELSE IF fPaddingPasses THEN GarbageKey ELSE NoKey

\* the key store can produce a private key: SignSignature succeeds
HaveKeys(v) == ~IsCrypted(v) \/ (v.vMasterKey # NoKey /\ v.vMasterKey = v.keysUnder)

\* the loop of Unlock from record k on; lucky: the records whose padding
\* check passes for a wrong passphrase
RECURSIVE UnlockFrom(_, _, _, _)
UnlockFrom(v, strWalletPassphrase, lucky, k) ==
    IF k > Len(v.mapMasterKeys) THEN [ret |-> FALSE, vault |-> v]
    ELSE LET vMasterKey == Decrypt(v.mapMasterKeys[k], strWalletPassphrase, k \in lucky) IN
         IF vMasterKey = NoKey THEN [ret |-> FALSE, vault |-> v]
         ELSE LET u == KeyStoreUnlock(v, vMasterKey) IN
              IF u.ret THEN u ELSE UnlockFrom(v, strWalletPassphrase, lucky, k + 1)

Unlock(v, strWalletPassphrase, lucky) ==
    IF ~IsLocked(v) THEN [ret |-> FALSE, vault |-> v]
    ELSE UnlockFrom(v, strWalletPassphrase, lucky, 1)

\* the loop of ChangeWalletPassphrase from record k on, the store locked;
\* fail: the step of the environment that fails, if any
RECURSIVE ChangeFrom(_, _, _, _, _, _, _)
ChangeFrom(v, fWasLocked, strOld, strNew, fail, lucky, k) ==
    IF k > Len(v.mapMasterKeys) THEN [ret |-> FALSE, vault |-> v]
    ELSE LET vMasterKey == Decrypt(v.mapMasterKeys[k], strOld, k \in lucky) IN
         IF vMasterKey = NoKey THEN [ret |-> FALSE, vault |-> v]
         ELSE LET u == KeyStoreUnlock(v, vMasterKey) IN
              IF ~u.ret THEN ChangeFrom(v, fWasLocked, strOld, strNew, fail, lucky, k + 1)
              ELSE IF fail \in {"SetKeyFromPassphrase", "Encrypt"}
              THEN [ret |-> FALSE, vault |-> u.vault]
              ELSE LET w == [u.vault EXCEPT !.mapMasterKeys[k].pass = strNew,
                                            !.strWalletPassphrase = ""] IN
                   [ret |-> TRUE, vault |-> IF fWasLocked THEN Lock(w) ELSE w]

ChangeWalletPassphrase(v, strOld, strNew, fail, lucky) ==
    ChangeFrom(Lock(v), IsLocked(v), strOld, strNew, fail, lucky, 1)

\* the steps of EncryptWallet the environment can fail
EncryptFailures ==
    {"none", "SetKeyFromPassphrase", "Encrypt", "TxnBegin", "EncryptKeys", "TxnCommit",
     "WriteHDChain"}

\* an EncryptWallet that does not look whether the store is crypted
EncryptWalletAgain(v, fFile, strWalletPassphrase, fail, lucky) ==
    LET vMasterKey == v.nMasterKeyMaxID + 1
        added == [v EXCEPT !.nMasterKeyMaxID = vMasterKey,
                           !.mapMasterKeys = Append(@, [pass |-> strWalletPassphrase,
                                                        key |-> vMasterKey])]
        crypted == [added EXCEPT !.fUseCrypto = TRUE, !.keysUnder = vMasterKey]
    IN [ret |-> "true", vault |-> Lock(crypted)]

\* EncryptWallet: "true", "false", "exit" (the process is gone) or "threw"
EncryptWallet(v, fFile, strWalletPassphrase, fail, lucky) ==
    LET vMasterKey == v.nMasterKeyMaxID + 1
        added == [v EXCEPT !.nMasterKeyMaxID = vMasterKey,
                           !.mapMasterKeys = Append(@, [pass |-> strWalletPassphrase,
                                                        key |-> vMasterKey])]
        crypted == [added EXCEPT !.fUseCrypto = TRUE, !.keysUnder = vMasterKey]
        unlocked == Unlock(Lock(crypted), strWalletPassphrase, lucky).vault
    IN IF IsCrypted(v) THEN [ret |-> "false", vault |-> v]
       ELSE IF fail \in {"SetKeyFromPassphrase", "Encrypt"} THEN [ret |-> "false", vault |-> v]
       ELSE IF fFile /\ fail = "TxnBegin" THEN [ret |-> "false", vault |-> added]
       ELSE IF fail = "EncryptKeys" THEN [ret |-> "exit", vault |-> [added EXCEPT !.running = FALSE]]
       ELSE IF fFile /\ fail = "TxnCommit"
       THEN [ret |-> "exit", vault |-> [crypted EXCEPT !.running = FALSE]]
       ELSE IF v.fHD /\ (IsLocked(unlocked) \/ fail = "WriteHDChain")
       THEN [ret |-> "threw", vault |-> unlocked]
       ELSE [ret |-> "true",
             vault |-> [Lock(unlocked) EXCEPT
                          !.strWalletPassphrase = strWalletPassphrase,
                          !.nExternalChainCounter = IF v.fHD THEN 0 ELSE @,
                          !.mapKeys = IF v.fHD THEN {} ELSE @,
                          !.issued = IF v.fHD THEN {} ELSE @]]

\* a derivation that does not look whether the key store has the child
SkipKnownChild(nExternalChainCounter, mapKeys) ==
    [childKey |-> nExternalChainCounter, nExternalChainCounter |-> nExternalChainCounter + 1]

\* the do-while of GenerateNewKey: derive the child at the counter and
\* increment the counter, again while the key store has the child
RECURSIVE DeriveNextChild(_, _)
DeriveNextChild(nExternalChainCounter, mapKeys) ==
    IF nExternalChainCounter \in mapKeys
    THEN DeriveNextChild(nExternalChainCounter + 1, mapKeys)
    ELSE [childKey |-> nExternalChainCounter, nExternalChainCounter |-> nExternalChainCounter + 1]

\* a key that is no child of the HD chain
RandomKey == -1

\* GenerateNewKey: "ok" with the child index of the key returned, or
\* "threw"; fail: the step of the environment that fails, if any
GenerateNewKey(v, fFile, fail) ==
    IF ~v.fHD
    THEN IF IsLocked(v) \/ fail \in {"AddKey", "WriteKey"}
         THEN [ret |-> "threw", childKey |-> RandomKey, vault |-> v]
         ELSE [ret |-> "ok", childKey |-> RandomKey, vault |-> v]
    ELSE IF ~HaveKeys(v) THEN [ret |-> "threw", childKey |-> RandomKey, vault |-> v]
    ELSE LET d == DeriveNextChild(v.nExternalChainCounter, v.mapKeys)
             derived == [v EXCEPT !.nExternalChainCounter = d.nExternalChainCounter]
             added == [derived EXCEPT !.mapKeys = @ \cup {d.childKey}]
         IN IF fail \in {"WriteHDChain", "AddKey"}
            THEN [ret |-> "threw", childKey |-> d.childKey, vault |-> derived]
            ELSE IF fFile /\ ~IsCrypted(v) /\ fail = "WriteKey"
            THEN [ret |-> "threw", childKey |-> d.childKey, vault |-> added]
            ELSE [ret |-> "ok", childKey |-> d.childKey,
                  vault |-> [added EXCEPT !.issued = @ \cup {d.childKey}]]

(***************************************************************************)
(* The ledger state machine.  Callers build and commit one payment each;   *)
(* each pays its own payee, so the caller's name stands for the hash of    *)
(* its transaction.  Three specifications share the actions and differ in  *)
(* the scenario they start in: Spec (scenario "ledger": every ledger       *)
(* operation on the transactions F, S and Z, and one caller), SpecSend     *)
(* (scenario "send": two callers and all the requests, spending G)         *)
(* and SpecMerge (scenario "merge": AddToWallet handed arbitrary records). *)
(***************************************************************************)
\* the largest order position handed out
MaxOrderPos == 3
\* the largest -keypool setting
MaxKeypoolSize == 1

Callers == IF scenario \in {"send", "pool"} THEN {"A", "B"} ELSE {"A"}

\* what the chain holds
ChainTxs == IF scenario = "send" THEN {TxG} ELSE {TxF, TxS, TxZ}

Request(nValue, nTransactionFee, setCoins_in, change_back, contract, keystore) ==
    [nValue |-> nValue, nTransactionFee |-> nTransactionFee, setCoins_in |-> setCoins_in,
     change_back_to_input_address |-> change_back, contract |-> contract, keystore |-> keystore,
     destChange |-> "none"]

\* the request with a coin-control change destination set
WithDestChange(req) == [req EXCEPT !.destChange = "custom"]

\* the owned outputs of the ledger, spent or not: what a caller can name
OwnedOutputs(mw) ==
    {<<h, k - 1>> : <<h, k>> \in
        UNION {{<<x, j>> : j \in {y \in 1..Len(mw[x].vout) : IsMine(mw[x].vout[y])}} :
                    x \in DOMAIN mw}}

PayValues == {1, 4, 7}
FeeSettings == {0, 1}

\* the requests of a caller: A asks for everything in the send scenario
Requests(c, mw) ==
    IF scenario = "send" /\ c = "A"
    THEN {Request(v, f, {}, FALSE, FALSE, "unlocked") : v \in PayValues, f \in FeeSettings}
         \cup {Request(1, 1, {}, TRUE, FALSE, "unlocked"),
               Request(1, 1, {}, FALSE, TRUE, "unlocked"),
               Request(1, 1, {}, FALSE, FALSE, "locked"),
               Request(1, 1, {}, FALSE, FALSE, "bare")}
         \cup {Request(v, f, {o}, cb, FALSE, "unlocked") :
                v \in {1, 4}, f \in FeeSettings, o \in OwnedOutputs(mw), cb \in BOOLEAN}
         \cup {WithDestChange(Request(1, 1, coins, cb, FALSE, "unlocked")) :
                coins \in {{}} \cup {{o} : o \in OwnedOutputs(mw)}, cb \in BOOLEAN}
    ELSE {Request(1, 1, {}, FALSE, FALSE, "unlocked")}

NoCall == [fn |-> "none"]
EmptyMap == [h \in {} |-> 0]
IdleCaller == [pc |-> "idle", wtxNew |-> NoTx, reservekey |-> NoReserve]
NoOp == [op |-> "none"]

\* (nRepeated of a FixSpentCoins record is the mismatch count of the repair
\* run it repeats with the same index and nothing in between, -1 if none)
\* what lastOp keeps of a call: in the audit, observe and record scenarios the whole call (its
\* arguments and results, the ledger before it, and the ids every call so far
\* has added on purpose), elsewhere the short record
History(short, full, added) ==
    IF scenario \in {"audit", "observe", "record"}
    THEN full @@ [before |-> mapWallet, ever |-> lastOp.ever \cup added]
    ELSE short

\* the answers of CWalletDB::EraseTx
EraseAnswers == IF scenario = "observe" THEN BOOLEAN ELSE {TRUE}

\* the transaction part of a record
AsTx(wtx) == [hash |-> wtx.hash, vin |-> wtx.vin, vout |-> wtx.vout, fCoinStake |-> wtx.fCoinStake]

\* what the network can show the wallet: the chain transactions and, in the
\* ledger scenario, the built transactions the mempool accepted
ObservableTxs ==
    IF scenario = "send" THEN ChainTxs ELSE ChainTxs \cup {AsTx(caller[c].wtxNew) : c \in mempool}

\* how a transaction is shown: in the send scenario always in its block and
\* with fUpdate, as a scan does
ObservedBlocks == IF scenario = "send" THEN Blocks ELSE {0} \cup Blocks
UpdateFlags == IF scenario = "send" THEN {TRUE} ELSE BOOLEAN

\* the development-build restriction and the answers of AcceptToMemoryPool:
\* in the ledger scenario the build is a release and the mempool takes
\* whatever does not conflict
CrippleFlags == IF scenario = "send" THEN BOOLEAN ELSE {FALSE}
AcceptAnswers == IF scenario = "send" THEN BOOLEAN ELSE {TRUE}

\* the wallet as constructed
LedgerInit ==
    /\ mapWallet = EmptyMap
    /\ nOrderPosNext = 0
    /\ keyPool = [setKeyPool |-> {}, poolDB |-> EmptyMap, nKeys |-> 0]
    /\ caller = [c \in {"A", "B"} |-> IdleCaller]
    /\ mempool = {}
    /\ fPruned = FALSE
    /\ orphaned = {}
    /\ keptKeys = {}
    /\ lastOp = NoOp

Init ==
    /\ selIn = NoCall
    /\ selOut = NoCall
    /\ scenario = "ledger"
    /\ vault = NewVault(FALSE)
    /\ fFileBacked = TRUE
    /\ nKeypoolSize = MaxKeypoolSize
    /\ LedgerInit

SendInit ==
    /\ selIn = NoCall
    /\ selOut = NoCall
    /\ scenario = "send"
    /\ vault = NewVault(FALSE)
    /\ fFileBacked = TRUE
    /\ nKeypoolSize \in 0..MaxKeypoolSize
    /\ LedgerInit

Ledger == [mapWallet |-> mapWallet, nOrderPosNext |-> nOrderPosNext]

\* a transaction arrives from the network or a scanned block
CallAddToWalletIfInvolvingMe ==
    \E tx \in ObservableTxs, pblock \in ObservedBlocks, fUpdate \in UpdateFlags :
        LET r == AddToWalletIfInvolvingMe(Ledger, tx, pblock, fUpdate) IN
        /\ r.nOrderPosNext <= MaxOrderPos
        /\ mapWallet' = r.mapWallet
        /\ nOrderPosNext' = r.nOrderPosNext
        /\ lastOp' = LET short == [op |-> "AddToWalletIfInvolvingMe", hash |-> tx.hash,
                                   fSkipped |-> tx.hash \in DOMAIN mapWallet /\ ~fUpdate]
                          fRelevant == IsMineTx(tx) \/ IsFromMe(mapWallet, tx)
                      IN History(short,
                                 short @@ [tx |-> tx, pblock |-> pblock, fUpdate |-> fUpdate,
                                           ret |-> r.ret, fRelevant |-> fRelevant],
                                 IF fRelevant THEN {tx.hash} ELSE {})
        /\ orphaned' = IF pblock # 0 THEN orphaned \ {tx.hash} ELSE orphaned
        /\ UNCHANGED <<selIn, selOut, vault, scenario, fFileBacked, nKeypoolSize, keyPool, caller,
                       mempool, fPruned, keptKeys>>

CallEraseFromWallet ==
    \E hash \in DOMAIN mapWallet \cup {"Z"}, fEraseTx \in EraseAnswers :
        /\ mapWallet' = EraseFromWallet(mapWallet, fFileBacked, hash)
        /\ fPruned' = (fPruned \/ (fFileBacked /\ hash \in DOMAIN mapWallet))
        /\ lastOp' = History([op |-> "EraseFromWallet"],
                             [op |-> "EraseFromWallet", hash |-> hash, fEraseTx |-> fEraseTx,
                              ret |-> EraseFromWalletReturns(mapWallet, fFileBacked, hash, fEraseTx)],
                             {})
        /\ UNCHANGED <<selIn, selOut, vault, scenario, nOrderPosNext, fFileBacked, nKeypoolSize, keyPool,
                       caller, mempool, orphaned, keptKeys>>

\* invalid: the records RevalidateTransaction rejects this time
CallResendWalletTransactions ==
    \E invalid \in SUBSET DOMAIN mapWallet :
        /\ mapWallet' = EraseAll(mapWallet, fFileBacked, invalid)
        /\ mempool' = mempool \ invalid
        /\ fPruned' = (fPruned \/ (fFileBacked /\ invalid # {}))
        /\ lastOp' = [op |-> "ResendWalletTransactions"]
        /\ UNCHANGED <<selIn, selOut, vault, scenario, nOrderPosNext, fFileBacked, nKeypoolSize, keyPool,
                       caller, orphaned, keptKeys>>

\* a block is disconnected
CallDisableTransaction ==
    \E tx \in ObservableTxs :
        /\ mapWallet' = DisableTransaction(mapWallet, tx)
        /\ lastOp' = History([op |-> "DisableTransaction"],
                             [op |-> "DisableTransaction", hash |-> tx.hash], {})
        /\ orphaned' = IF tx.fCoinStake /\ IsFromMe(mapWallet, tx)
                        THEN orphaned \cup {tx.hash} ELSE orphaned
        /\ UNCHANGED <<selIn, selOut, vault, scenario, nOrderPosNext, fFileBacked, nKeypoolSize, keyPool,
                       caller, mempool, fPruned, keptKeys>>

CallFixSpentCoins ==
    \E txdb \in TxIndexes, fCheckOnly \in BOOLEAN :
        LET r == FixSpentCoins(mapWallet, txdb, fCheckOnly) IN
        /\ mapWallet' = r.mapWallet
        /\ fPruned' = (fPruned \/ r.marked # {})
        /\ lastOp' = History([op |-> "FixSpentCoins"],
                             [op |-> "FixSpentCoins", txdb |-> txdb, fCheckOnly |-> fCheckOnly,
                              nMismatchFound |-> r.nMismatchFound,
                              nBalanceInQuestion |-> r.nBalanceInQuestion,
                              nRepeated |-> IF /\ lastOp.op = "FixSpentCoins"
                                               /\ ~lastOp.fCheckOnly
                                               /\ lastOp.txdb = txdb
                                            THEN lastOp.nMismatchFound ELSE -1],
                             {})
        /\ UNCHANGED <<selIn, selOut, vault, scenario, nOrderPosNext, fFileBacked, nKeypoolSize, keyPool,
                       caller, mempool, orphaned, keptKeys>>

CallCreateTransaction ==
    \E c \in Callers :
        /\ caller[c].pc = "idle"
        /\ \E req \in Requests(c, mapWallet) :
             \E b \in CreateTransaction(mapWallet, c, req, nKeypoolSize, keyPool, NoReserve) :
                LET w == LedgerAfterCreate(Ledger, b.wtxNew) IN
                /\ mapWallet' = w.mapWallet
                /\ nOrderPosNext' = w.nOrderPosNext
                /\ keyPool' = b.keys
                /\ caller' = [caller EXCEPT ![c] =
                        [pc |-> IF b.ret THEN "built" ELSE "failed", wtxNew |-> b.wtxNew,
                         reservekey |-> b.reservekey]]
                /\ lastOp' = [op |-> "CreateTransaction", hash |-> c, ret |-> b.ret, err |-> b.err,
                              before |-> Ledger, req |-> req, wtxNew |-> b.wtxNew,
                              nFeeRet |-> b.nFeeRet, hist |-> b.hist]
        /\ UNCHANGED <<selIn, selOut, vault, scenario, fFileBacked, nKeypoolSize, mempool, fPruned,
                       orphaned, keptKeys>>

CallCommitTransaction ==
    \E c \in Callers, fDevbuildCripple \in CrippleFlags, fAccept \in AcceptAnswers :
        /\ caller[c].pc = "built"
        /\ fAccept => ~ConflictsWithMempool(mempool, caller, caller[c].wtxNew)
        /\ IF fDevbuildCripple
           THEN /\ caller' = [caller EXCEPT ![c].pc = "rejected"]
                /\ lastOp' = [op |-> "CommitTransaction", hash |-> c, ret |-> "false",
                              steps |-> <<>>, reservekey |-> caller[c].reservekey]
                /\ UNCHANGED <<mapWallet, nOrderPosNext, keyPool, mempool, keptKeys>>
           ELSE LET r == CommitTransaction(Ledger, fFileBacked, keyPool, caller[c].reservekey,
                                           caller[c].wtxNew, fAccept) IN
                /\ r.nOrderPosNext <= MaxOrderPos
                /\ mapWallet' = r.mapWallet
                /\ nOrderPosNext' = r.nOrderPosNext
                /\ keyPool' = r.keys
                /\ keptKeys' = IF caller[c].reservekey.nIndex # -1
                               THEN keptKeys \cup {caller[c].reservekey.vchPubKey} ELSE keptKeys
                /\ mempool' = IF r.ret = "true" THEN mempool \cup {c} ELSE mempool
                /\ caller' = [caller EXCEPT ![c].pc = IF r.ret = "true" THEN "committed"
                                                      ELSE IF r.ret = "false" THEN "rejected"
                                                      ELSE "threw",
                                            ![c].reservekey = NoReserve]
                /\ lastOp' = [op |-> "CommitTransaction", hash |-> c, ret |-> r.ret,
                              steps |-> r.steps, reservekey |-> caller[c].reservekey]
        /\ UNCHANGED <<selIn, selOut, vault, scenario, fFileBacked, nKeypoolSize, fPruned, orphaned>>

\* the caller is done with its CReserveKey: the destructor returns the key
DropReserveKey ==
    \E c \in Callers :
        /\ caller[c].pc \in {"built", "failed", "committed", "rejected", "threw"}
        /\ keyPool' = ReserveReturnKey(keyPool, caller[c].reservekey)
        /\ caller' = [caller EXCEPT ![c].pc = "done", ![c].reservekey = NoReserve]
        /\ lastOp' = [op |-> "DropReserveKey", hash |-> c]
        /\ UNCHANGED <<selIn, selOut, vault, scenario, mapWallet, nOrderPosNext, fFileBacked,
                       nKeypoolSize, mempool, fPruned, orphaned, keptKeys>>

Next ==
    \/ CallAddToWalletIfInvolvingMe
    \/ CallEraseFromWallet
    \/ CallResendWalletTransactions
    \/ CallDisableTransaction
    \/ CallFixSpentCoins
    \/ CallCreateTransaction
    \/ CallCommitTransaction
    \/ DropReserveKey

Spec == Init /\ [][Next]_vars

SendNext ==
    \/ CallAddToWalletIfInvolvingMe
    \/ CallCreateTransaction
    \/ CallCommitTransaction
    \/ DropReserveKey

SpecSend == SendInit /\ [][SendNext]_vars

\* the records AddToWallet can be handed for F and S: with or without a
\* block, from the wallet or not, with any spent bitmap
IncomingRecords ==
    IF scenario = "observe" THEN {CWalletTx(tx) : tx \in ChainTxs} ELSE
    IF scenario = "record"
    THEN {[CWalletTx(tx) EXCEPT !.hashBlock = b, !.nIndex = n, !.fFromMe = f] :
            tx \in {TxF}, b \in {0, 1, 2}, n \in {-1, 0, 1}, f \in BOOLEAN} ELSE
    UNION {{[CWalletTx(tx) EXCEPT !.hashBlock = b,
                                  !.nIndex = IF b # 0 THEN IndexInBlock(tx) ELSE -1,
                                  !.fFromMe = f, !.vfSpent = s] :
                b \in {0} \cup Blocks, f \in BOOLEAN, s \in [1..Len(tx.vout) -> BOOLEAN]} :
            tx \in {TxF, TxS}}

\* AddToWallet called with a record, as the wallet loader and the RPC
\* handlers call it
CallAddToWallet ==
    \E wtxIn \in IncomingRecords :
        LET r == AddToWallet(Ledger, wtxIn)
            fMerged == wtxIn.hash \in DOMAIN mapWallet
        IN
        /\ r.nOrderPosNext <= MaxOrderPos
        /\ mapWallet' = r.mapWallet
        /\ nOrderPosNext' = r.nOrderPosNext
        /\ lastOp' = LET short == [op |-> "AddToWallet", hash |-> wtxIn.hash, fMerged |-> fMerged,
                                   fBlock |-> wtxIn.hashBlock # 0,
                                   vfSpentOld |-> IF fMerged THEN mapWallet[wtxIn.hash].vfSpent
                                                  ELSE <<>>,
                                   vfSpentIn |-> wtxIn.vfSpent]
                      IN History(short,
                                 short @@ [wtxIn |-> wtxIn, fUpdated |-> r.fUpdated,
                                           fWritten |-> r.fWritten],
                                 {wtxIn.hash})
        /\ UNCHANGED <<selIn, selOut, vault, scenario, fFileBacked, nKeypoolSize, keyPool, caller,
                       mempool, fPruned, orphaned, keptKeys>>

MergeInit ==
    /\ selIn = NoCall
    /\ selOut = NoCall
    /\ scenario = "merge"
    /\ vault = NewVault(FALSE)
    /\ fFileBacked \in BOOLEAN
    /\ nKeypoolSize = 0
    /\ LedgerInit

MergeNext ==
    \/ CallAddToWallet
    \/ CallEraseFromWallet

SpecMerge == MergeInit /\ [][MergeNext]_vars

(***************************************************************************)
(* SpecAudit and SpecObserve: the ledger with the whole of each call kept  *)
(* in lastOp.  SpecAudit reconciles the ledger an observer and a           *)
(* disconnecting chain have filled against the transaction index, which    *)
(* answers with any of TxIndexes.  SpecObserve is the membership of the    *)
(* ledger: observation, force-adding and erasing, in a wallet that is      *)
(* file-backed or not and whose database may refuse an erase.              *)
(***************************************************************************)
HistoryInit ==
    /\ selIn = NoCall
    /\ selOut = NoCall
    /\ vault = NewVault(FALSE)
    /\ nKeypoolSize = 0
    /\ mapWallet = EmptyMap
    /\ nOrderPosNext = 0
    /\ keyPool = [setKeyPool |-> {}, poolDB |-> EmptyMap, nKeys |-> 0]
    /\ caller = [c \in {"A", "B"} |-> IdleCaller]
    /\ mempool = {}
    /\ fPruned = FALSE
    /\ orphaned = {}
    /\ keptKeys = {}
    /\ lastOp = [op |-> "none", ever |-> {}]

AuditInit ==
    /\ scenario = "audit"
    /\ fFileBacked = TRUE
    /\ HistoryInit

AuditNext ==
    \/ CallAddToWalletIfInvolvingMe
    \/ CallDisableTransaction
    \/ CallFixSpentCoins

SpecAudit == AuditInit /\ [][AuditNext]_vars

ObserveInit ==
    /\ scenario = "observe"
    /\ fFileBacked \in BOOLEAN
    /\ HistoryInit

ObserveNext ==
    \/ CallAddToWalletIfInvolvingMe
    \/ CallAddToWallet
    \/ CallEraseFromWallet

SpecObserve == ObserveInit /\ [][ObserveNext]_vars

\* SpecRecord: the fields of a record under AddToWallet, which is handed
\* records with any block, merkle index and from-me flag
RecordInit ==
    /\ scenario = "record"
    /\ fFileBacked = TRUE
    /\ HistoryInit

SpecRecord == RecordInit /\ [][CallAddToWallet]_vars

(***************************************************************************)
(* SpecSelect: the selectors applied to candidate lists drawn from bounded *)
(* sets.  A candidate is what AvailableCoins hands over: the output, its   *)
(* value, the depth of its transaction, whether the transaction is from    *)
(* the wallet itself, and the transaction time.                            *)
(***************************************************************************)
\* the spend time of the calls; a candidate with nTime 2 is too late
SpendTime == 1

\* depth, origin and time of a candidate: confirmed deep and external,
\* confirmed once and external, unconfirmed and own, deep but too late
\* (in the attempts scenario the last is unconfirmed and external)
CoinProfiles ==
    << [nDepth |-> 10, fFromMe |-> FALSE, nTime |-> 1],
       [nDepth |-> 1,  fFromMe |-> FALSE, nTime |-> 1],
       [nDepth |-> 0,  fFromMe |-> TRUE,  nTime |-> 1],
       IF scenario = "attempts" THEN [nDepth |-> 0,  fFromMe |-> FALSE, nTime |-> 1]
                                ELSE [nDepth |-> 10, fFromMe |-> FALSE, nTime |-> 2] >>

\* the confirmation thresholds (nConfMine, nConfTheirs) SelectCoins uses
Policies == {<<1, 10>>, <<1, 1>>, <<0, 1>>}

MakeCoin(h, v, p) ==
    [hash |-> h, i |-> 0, nValue |-> v, nDepth |-> CoinProfiles[p].nDepth,
     fFromMe |-> CoinProfiles[p].fFromMe, nTime |-> CoinProfiles[p].nTime]

\* candidate lists of up to MaxCoins outputs, one list per multiset
CandidateLists ==
    UNION {
        {[k \in 1..n |-> MakeCoin(k, vs[k], ps[k])] :
            <<vs, ps>> \in {<<v, q>> \in [1..n -> 1..MaxCoinValue] \X [1..n -> 1..Len(CoinProfiles)] :
                \A a \in 1..(n - 1) :
                    \/ v[a] < v[a + 1]
                    \/ (v[a] = v[a + 1] /\ q[a] <= q[a + 1])}}
        : n \in 0..MaxCoins}

SelectInit ==
    /\ scenario = "select"
    /\ selIn \in [nTargetValue : 0..MaxTarget, vCoins : CandidateLists]
    /\ selOut = NoCall
    /\ vault = NewVault(FALSE)
    /\ fFileBacked = FALSE
    /\ nKeypoolSize = 0
    /\ LedgerInit

CallSelectCoinsMinConf ==
    /\ selOut = NoCall
    /\ \E pol \in Policies :
         \E r \in SelectCoinsMinConf(selIn.nTargetValue, SpendTime, pol[1], pol[2], selIn.vCoins) :
            selOut' = [fn |-> "SelectCoinsMinConf", nConfMine |-> pol[1], nConfTheirs |-> pol[2],
                       res |-> r]
    /\ UNCHANGED selIn
    /\ UNCHANGED ledgerVars

CallSelectSmallestCoins ==
    /\ selOut = NoCall
    /\ \E pol \in Policies :
         \E r \in SelectSmallestCoins(selIn.nTargetValue, SpendTime, pol[1], pol[2], selIn.vCoins) :
            selOut' = [fn |-> "SelectSmallestCoins", nConfMine |-> pol[1], nConfTheirs |-> pol[2],
                       res |-> r]
    /\ UNCHANGED selIn
    /\ UNCHANGED ledgerVars

\* AvailableCoins(vCoins, fOnlyConfirmed = true, ...) of the candidates: the
\* outputs of trusted transactions
TrustedCoins(vCoins) == SelectSeq(vCoins, LAMBDA c : c.nDepth >= 1 \/ c.fFromMe)

\* SelectCoins tries the policies itself; the loosest is (0, 1)
CallSelectCoins ==
    /\ selOut = NoCall
    /\ \E fHasSelected \in BOOLEAN, contract \in BOOLEAN :
         \E r \in SelectCoinsFrom(selIn.nTargetValue, SpendTime, TrustedCoins(selIn.vCoins),
                                  fHasSelected, contract) :
            selOut' = [fn |-> "SelectCoins", fHasSelected |-> fHasSelected, contract |-> contract,
                       res |-> r]
    /\ UNCHANGED selIn
    /\ UNCHANGED ledgerVars

SelectNext == CallSelectCoinsMinConf \/ CallSelectSmallestCoins \/ CallSelectCoins

SpecSelect == SelectInit /\ [][SelectNext]_vars

\* SpecAttempts: SelectCoins alone, over wallets that also hold unconfirmed
\* outputs of other origin
AttemptsInit ==
    /\ scenario = "attempts"
    /\ selIn \in [nTargetValue : 0..MaxTarget, vCoins : CandidateLists]
    /\ selOut = NoCall
    /\ vault = NewVault(FALSE)
    /\ fFileBacked = FALSE
    /\ nKeypoolSize = 0
    /\ LedgerInit

SpecAttempts == AttemptsInit /\ [][CallSelectCoins]_vars

(***************************************************************************)
(* SpecStake: SelectCoinsForStaking on wallets drawn from bounded sets,    *)
(* called by the miner or not, with the reference arguments as the caller  *)
(* hands them over: an empty or a used vector, a balance of 0 or more.     *)
(***************************************************************************)
MaxStakeCoins == 2
MaxStakeValue == 2
MaxReserve == 3
StakeTime == 2

\* confirmed and aged; confirmed and young; own and unconfirmed; external
\* and unconfirmed; an own coinstake short of maturity
StakeProfiles ==
    << [nDepth |-> 20, fFromMe |-> FALSE, fCoinStake |-> FALSE, fDepsConfirmed |-> TRUE, nTime |-> 1],
       [nDepth |-> 20, fFromMe |-> FALSE, fCoinStake |-> FALSE, fDepsConfirmed |-> TRUE, nTime |-> 2],
       [nDepth |-> 0,  fFromMe |-> TRUE,  fCoinStake |-> FALSE, fDepsConfirmed |-> TRUE, nTime |-> 1],
       [nDepth |-> 0,  fFromMe |-> FALSE, fCoinStake |-> FALSE, fDepsConfirmed |-> TRUE, nTime |-> 1],
       [nDepth |-> 10, fFromMe |-> TRUE,  fCoinStake |-> TRUE,  fDepsConfirmed |-> TRUE, nTime |-> 1] >>

StakeCoin(h, v, p) == [hash |-> h, i |-> 0, nValue |-> v] @@ StakeProfiles[p]

\* wallets of up to MaxStakeCoins outputs, one list per multiset
StakeWallets ==
    UNION {
        {[k \in 1..n |-> StakeCoin(k, vs[k], ps[k])] :
            <<vs, ps>> \in {<<v, q>> \in [1..n -> 1..MaxStakeValue] \X [1..n -> 1..Len(StakeProfiles)] :
                \A a \in 1..(n - 1) :
                    \/ v[a] < v[a + 1]
                    \/ (v[a] = v[a + 1] /\ q[a] <= q[a + 1])}}
        : n \in 0..MaxStakeCoins}

StakeInit ==
    /\ scenario = "stake"
    /\ selIn \in [wallet : StakeWallets, nReserveBalance : 0..MaxReserve, fMiner : BOOLEAN,
                   vCoinsRet : {<<>>, <<<<"old", 0>>>>}, balance_out : {0, 1}]
    /\ selOut = NoCall
    /\ vault = NewVault(FALSE)
    /\ fFileBacked = FALSE
    /\ nKeypoolSize = 0
    /\ LedgerInit

CallSelectCoinsForStaking ==
    /\ selOut = NoCall
    /\ \E r \in SelectCoinsForStaking(selIn.wallet, StakeTime, selIn.nReserveBalance, selIn.vCoinsRet,
                                       "NONE", selIn.balance_out, selIn.fMiner) :
         selOut' = [fn |-> "SelectCoinsForStaking", res |-> r]
    /\ UNCHANGED selIn
    /\ UNCHANGED ledgerVars

SpecStake == StakeInit /\ [][CallSelectCoinsForStaking]_vars

(***************************************************************************)
(* SpecBalance: GetUnconfirmedBalance on wallets drawn from bounded sets.  *)
(***************************************************************************)
\* confirmed; unconfirmed and external; own with confirmed inputs; not
\* final; own with unconfirmed inputs; not final and in a block
BalanceProfiles ==
    << [fFinal |-> TRUE,  nDepth |-> 20, fFromMe |-> FALSE, fDepsConfirmed |-> TRUE],
       [fFinal |-> TRUE,  nDepth |-> 0,  fFromMe |-> FALSE, fDepsConfirmed |-> TRUE],
       [fFinal |-> TRUE,  nDepth |-> 0,  fFromMe |-> TRUE,  fDepsConfirmed |-> TRUE],
       [fFinal |-> FALSE, nDepth |-> 0,  fFromMe |-> FALSE, fDepsConfirmed |-> TRUE],
       [fFinal |-> TRUE,  nDepth |-> 0,  fFromMe |-> TRUE,  fDepsConfirmed |-> FALSE],
       [fFinal |-> FALSE, nDepth |-> 1,  fFromMe |-> FALSE, fDepsConfirmed |-> TRUE] >>

\* wallets of up to MaxStakeCoins records, one list per multiset
BalanceWallets ==
    UNION {
        {[k \in 1..n |-> [hash |-> k, nValue |-> vs[k]] @@ BalanceProfiles[ps[k]]] :
            <<vs, ps>> \in {<<v, q>> \in [1..n -> 1..MaxStakeValue] \X [1..n -> 1..Len(BalanceProfiles)] :
                \A a \in 1..(n - 1) :
                    \/ v[a] < v[a + 1]
                    \/ (v[a] = v[a + 1] /\ q[a] <= q[a + 1])}}
        : n \in 0..MaxStakeCoins}

BalanceInit ==
    /\ scenario = "balance"
    /\ selIn \in [wallet : BalanceWallets]
    /\ selOut = NoCall
    /\ vault = NewVault(FALSE)
    /\ fFileBacked = FALSE
    /\ nKeypoolSize = 0
    /\ LedgerInit

CallGetUnconfirmedBalance ==
    /\ selOut = NoCall
    /\ selOut' = [fn |-> "GetUnconfirmedBalance", nTotal |-> GetUnconfirmedBalance(selIn.wallet)]
    /\ UNCHANGED selIn
    /\ UNCHANGED ledgerVars

SpecBalance == BalanceInit /\ [][CallGetUnconfirmedBalance]_vars

(***************************************************************************)
(* The two locks (SpecLocks, scenario "locks").  Each wallet operation is  *)
(* reduced to the order in which it enters and leaves the critical         *)
(* sections of cs_main and cs_wallet, the calls it makes included.  Both   *)
(* are recursive mutexes; LOCK2(a, b) enters a and then b.  Threads run    *)
(* any of the operations concurrently; caller holds, per thread, the       *)
(* operation, the position in it and how often it holds each lock.         *)
(***************************************************************************)
Mutexes == {"cs_main", "cs_wallet"}

Enter(cs) == [a |-> "lock", cs |-> cs]
Leave(cs) == [a |-> "unlock", cs |-> cs]

\* { LOCK(cs); body }
LOCK(cs, body) == <<Enter(cs)>> \o body \o <<Leave(cs)>>
\* { LOCK2(cs1, cs2); body }
LOCK2(cs1, cs2, body) == LOCK(cs1, LOCK(cs2, body))

WalletUpdateSpentLocks == LOCK("cs_wallet", <<>>)
TopUpKeyPoolLocks == LOCK("cs_wallet", <<>>)
ReserveKeyFromKeyPoolLocks == LOCK("cs_wallet", TopUpKeyPoolLocks)
ReturnKeyLocks == LOCK("cs_wallet", <<>>)
GetKeyFromPoolLocks == LOCK("cs_wallet", ReserveKeyFromKeyPoolLocks)
\* the default key is replaced from the pool, then the spent flags updated
AddToWalletLocks == LOCK("cs_wallet", GetKeyFromPoolLocks \o WalletUpdateSpentLocks)
AddToWalletIfInvolvingMeLocks == LOCK("cs_wallet", AddToWalletLocks)
ScanForWalletTransactionsLocks == LOCK2("cs_main", "cs_wallet", AddToWalletIfInvolvingMeLocks)
ReacceptWalletTransactionsLocks == LOCK2("cs_main", "cs_wallet", ScanForWalletTransactionsLocks)
EraseFromWalletLocks == LOCK("cs_wallet", <<>>)
ResendWalletTransactionsLocks == LOCK("cs_wallet", <<>>) \o EraseFromWalletLocks
AvailableCoinsLocks == LOCK2("cs_main", "cs_wallet", <<>>)
\* AddReserveKey entering the wallet's critical section first
AddReserveKeyWalletFirst == LOCK2("cs_wallet", "cs_main", <<>>)
AddReserveKeyLocks == LOCK2("cs_main", "cs_wallet", <<>>)
CreateTransactionLocks ==
    LOCK2("cs_main", "cs_wallet", AvailableCoinsLocks \o ReserveKeyFromKeyPoolLocks \o ReturnKeyLocks)
CommitTransactionLocks == LOCK2("cs_main", "cs_wallet", AddToWalletLocks)
FixSpentCoinsLocks == LOCK("cs_wallet", <<>>)

\* the operations a thread may run, each with its critical sections
LockPrograms ==
    [scan |-> ScanForWalletTransactionsLocks, build |-> CreateTransactionLocks,
     commit |-> CommitTransactionLocks, reconcile |-> FixSpentCoinsLocks,
     reaccept |-> ReacceptWalletTransactionsLocks, resend |-> ResendWalletTransactionsLocks,
     topup |-> TopUpKeyPoolLocks, getkey |-> GetKeyFromPoolLocks, addkey |-> AddReserveKeyLocks]

LockThreads == {"T1", "T2", "T3"}

IdleThread == [op |-> "idle", pc |-> 1, held |-> [cs \in Mutexes |-> 0]]

Running(t) == caller[t].op # "idle"
\* the step thread t is at, if it has not reached the end of its operation
AtStep(t) == Running(t) /\ caller[t].pc <= Len(LockPrograms[caller[t].op])
StepOf(t) == LockPrograms[caller[t].op][caller[t].pc]
Holds(t, cs) == caller[t].held[cs] > 0
\* a recursive mutex can be entered when no other thread holds it
Free(t, cs) == \A u \in LockThreads \ {t} : ~Holds(u, cs)

LocksInit ==
    /\ scenario = "locks"
    /\ selIn = NoCall
    /\ selOut = NoCall
    /\ vault = NewVault(FALSE)
    /\ fFileBacked = FALSE
    /\ nKeypoolSize = 0
    /\ mapWallet = EmptyMap
    /\ nOrderPosNext = 0
    /\ keyPool = [setKeyPool |-> {}, poolDB |-> EmptyMap, nKeys |-> 0]
    /\ caller = [t \in LockThreads |-> IdleThread]
    /\ mempool = {}
    /\ fPruned = FALSE
    /\ orphaned = {}
    /\ keptKeys = {}
    /\ lastOp = NoOp

LockFrame ==
    UNCHANGED <<selIn, selOut, vault, scenario, mapWallet, nOrderPosNext, fFileBacked, nKeypoolSize,
                keyPool, mempool, fPruned, orphaned, keptKeys, lastOp>>

BeginOperation(t, op) ==
    /\ ~Running(t)
    /\ caller' = [caller EXCEPT ![t] = [op |-> op, pc |-> 1, held |-> [cs \in Mutexes |-> 0]]]
    /\ LockFrame

EnterCritical(t) ==
    /\ AtStep(t)
    /\ StepOf(t).a = "lock"
    /\ Free(t, StepOf(t).cs)
    /\ caller' = [caller EXCEPT ![t].pc = @ + 1, ![t].held[StepOf(t).cs] = @ + 1]
    /\ LockFrame

LeaveCritical(t) ==
    /\ AtStep(t)
    /\ StepOf(t).a = "unlock"
    /\ caller' = [caller EXCEPT ![t].pc = @ + 1, ![t].held[StepOf(t).cs] = @ - 1]
    /\ LockFrame

EndOperation(t) ==
    /\ Running(t)
    /\ ~AtStep(t)
    /\ caller' = [caller EXCEPT ![t] = IdleThread]
    /\ LockFrame

LocksNext ==
    \E t \in LockThreads :
        \/ \E op \in DOMAIN LockPrograms : BeginOperation(t, op)
        \/ EnterCritical(t)
        \/ LeaveCritical(t)
        \/ EndOperation(t)

SpecLocks == LocksInit /\ [][LocksNext]_vars

(***************************************************************************)
(* The key pool on its own (SpecPool, scenario "pool"): an unlocked wallet *)
(* with a default key, whose pool is topped up and from which two callers, *)
(* each with a CReserveKey, reserve keys and keep or return them.          *)
(***************************************************************************)
\* the keys the wallet generates at most
MaxPoolKeys == 4

PoolInit ==
    /\ scenario = "pool"
    /\ selIn = NoCall
    /\ selOut = NoCall
    /\ vault = NewVault(FALSE)
    /\ fFileBacked = TRUE
    /\ nKeypoolSize \in 0..MaxKeypoolSize
    /\ LedgerInit

PoolFrame ==
    UNCHANGED <<selIn, selOut, vault, scenario, mapWallet, nOrderPosNext, fFileBacked, nKeypoolSize,
                mempool, fPruned, orphaned, keptKeys>>

CallTopUpKeyPool ==
    LET keys == TopUpKeyPool(keyPool, nKeypoolSize) IN
    /\ keys.nKeys <= MaxPoolKeys
    /\ keyPool' = keys
    /\ lastOp' = [op |-> "TopUpKeyPool"]
    /\ UNCHANGED caller
    /\ PoolFrame

CallGetReservedKey ==
    \E c \in Callers :
        LET r == GetReservedKey(keyPool, caller[c].reservekey, nKeypoolSize, FALSE, TRUE) IN
        /\ caller[c].reservekey.nIndex = -1
        /\ r.keys.nKeys <= MaxPoolKeys
        /\ keyPool' = r.keys
        /\ caller' = [caller EXCEPT ![c].reservekey = r.reservekey]
        /\ lastOp' = [op |-> "GetReservedKey", hash |-> c, ret |-> r.ret]
        /\ PoolFrame

CallKeepKey ==
    \E c \in Callers :
        /\ caller[c].reservekey.nIndex # -1
        /\ keyPool' = ReserveKeepKey(keyPool, fFileBacked, caller[c].reservekey)
        /\ caller' = [caller EXCEPT ![c].reservekey = NoReserve]
        /\ lastOp' = [op |-> "KeepKey", hash |-> c]
        /\ PoolFrame

CallReturnKey ==
    \E c \in Callers :
        /\ caller[c].reservekey.nIndex # -1
        /\ keyPool' = ReserveReturnKey(keyPool, caller[c].reservekey)
        /\ caller' = [caller EXCEPT ![c].reservekey = NoReserve]
        /\ lastOp' = [op |-> "ReturnKey", hash |-> c]
        /\ PoolFrame

PoolNext ==
    \/ CallTopUpKeyPool
    \/ CallGetReservedKey
    \/ CallKeepKey
    \/ CallReturnKey

SpecPool == PoolInit /\ [][PoolNext]_vars

(***************************************************************************)
(* ReacceptWalletTransactions (SpecReaccept, scenario "reaccept"): the     *)
(* wallet is loaded and the call made, as at startup, and then followed    *)
(* step by step through its while loop, on a ledger, a transaction index   *)
(* and a chain drawn from bounded sets.  selIn keeps the three as they     *)
(* were at the call; caller holds the position in the loop, fRepeat and    *)
(* vMissingTx; lastOp keeps the outputs that have gone to vMissingTx so    *)
(* far.  SpecReacceptFair adds that the call keeps running.                *)
(***************************************************************************)
\* the ledgers at the call: F and S, each there or not, with its first
\* output marked spent or not
ReacceptLedgers ==
    UNION {{[h \in hs |->
                [CWalletTx(IF h = "F" THEN TxF ELSE TxS) EXCEPT
                    !.vfSpent = <<f[h], FALSE>>,
                    !.nOrderPos = IF h = "S" /\ "F" \in hs THEN 1 ELSE 0]] :
            f \in [hs -> BOOLEAN]} : hs \in SUBSET {"F", "S"}}

\* the index entries of F and S: of another size than the outputs, or
\* with the first or the second output spent
ReacceptIndexes ==
    UNION {[hs -> {<<>>, <<TRUE, FALSE>>, <<FALSE, TRUE>>}] : hs \in SUBSET {"F", "S"}}

\* the chains: empty, in the order of spending, and against it
ReacceptChains == {<<>>, <<TxF, TxS, TxP>>, <<TxP, TxS, TxF>>}

ReacceptInit ==
    /\ scenario = "reaccept"
    /\ selIn = NoCall
    /\ selOut = NoCall
    /\ vault = NewVault(FALSE)
    /\ fFileBacked = TRUE
    /\ nKeypoolSize = 0
    /\ mapWallet = EmptyMap
    /\ nOrderPosNext = 0
    /\ keyPool = [setKeyPool |-> {}, poolDB |-> EmptyMap, nKeys |-> 0]
    /\ caller = [c \in {"A"} |-> [pc |-> "start", fRepeat |-> TRUE, vMissingTx |-> {}]]
    /\ mempool = {}
    /\ fPruned = FALSE
    /\ orphaned = {}
    /\ keptKeys = {}
    /\ lastOp = [op |-> "ReacceptWalletTransactions", ever |-> {}]

ReacceptFrame ==
    UNCHANGED <<selOut, vault, scenario, fFileBacked, nKeypoolSize, keyPool, mempool,
                fPruned, orphaned, keptKeys>>

\* the wallet file is loaded and ReacceptWalletTransactions called:
\* bool fRepeat = true
ReacceptCall ==
    /\ caller["A"].pc = "start"
    /\ selIn' \in [wallet : ReacceptLedgers, txdb : ReacceptIndexes, chain : ReacceptChains]
    /\ mapWallet' = selIn'.wallet
    /\ nOrderPosNext' = Cardinality(DOMAIN selIn'.wallet)
    /\ caller' = [caller EXCEPT !["A"].pc = "while"]
    /\ UNCHANGED lastOp
    /\ ReacceptFrame

\* while (fRepeat) { fRepeat = false; for (auto &item : mapWallet) ... }
ReacceptLoop ==
    /\ caller["A"].pc = "while"
    /\ caller["A"].fRepeat
    /\ \E r \in {ReacceptPass(mapWallet, selIn.txdb)} :
       /\ mapWallet' = r.mapWallet
       /\ caller' = [caller EXCEPT !["A"] = [pc |-> "rescan", fRepeat |-> FALSE,
                                             vMissingTx |-> r.vMissingTx]]
       /\ lastOp' = [lastOp EXCEPT !.ever = @ \cup r.vMissingTx]
    /\ UNCHANGED <<selIn, nOrderPosNext>>
    /\ ReacceptFrame

\* if (!vMissingTx.empty()) { if (ScanForWalletTransactions(...)) fRepeat = true; }
ReacceptRescan ==
    /\ caller["A"].pc = "rescan"
    /\ IF caller["A"].vMissingTx # {}
       THEN \E r \in {ScanForWalletTransactions(Ledger, selIn.chain, fUpdateDefault, 0)} :
            /\ mapWallet' = r.mapWallet
            /\ nOrderPosNext' = r.nOrderPosNext
            /\ caller' = [caller EXCEPT !["A"].pc = "while", !["A"].fRepeat = (r.ret # 0)]
       ELSE /\ caller' = [caller EXCEPT !["A"].pc = "while"]
            /\ UNCHANGED <<mapWallet, nOrderPosNext>>
    /\ UNCHANGED <<selIn, lastOp>>
    /\ ReacceptFrame

\* the while loop ends and the call returns
ReacceptReturn ==
    /\ caller["A"].pc = "while"
    /\ ~caller["A"].fRepeat
    /\ caller' = [caller EXCEPT !["A"].pc = "returned"]
    /\ UNCHANGED <<selIn, mapWallet, nOrderPosNext, lastOp>>
    /\ ReacceptFrame

ReacceptNext ==
    \/ ReacceptCall
    \/ ReacceptLoop
    \/ ReacceptRescan
    \/ ReacceptReturn

SpecReaccept == ReacceptInit /\ [][ReacceptNext]_vars

\* the thread that runs the call is scheduled until the call returns
SpecReacceptFair == SpecReaccept /\ WF_vars(ReacceptNext)

(***************************************************************************)
(* The vault state machine (SpecVault, scenario "vault"): a new wallet, or *)
(* a wallet loaded with one or two master-key records that wrap the same   *)
(* master key under different passphrases, and then any sequence of        *)
(* EncryptWallet, Unlock, Lock, ChangeWalletPassphrase and signing calls.  *)
(***************************************************************************)
MaxMasterKeys == 2

\* a wallet file with n records wrapping master key 1
LoadedVault(passes) ==
    [NewVault(FALSE) EXCEPT !.fUseCrypto = TRUE, !.keysUnder = 1,
                            !.nMasterKeyMaxID = Len(passes),
                            !.mapMasterKeys = [k \in 1..Len(passes) |->
                                                  [pass |-> passes[k], key |-> 1]]]

VaultInit ==
    /\ selIn = NoCall
    /\ selOut = NoCall
    /\ scenario = "vault"
    /\ fFileBacked \in BOOLEAN
    /\ nKeypoolSize = 0
    /\ LedgerInit
    /\ vault \in {NewVault(fHD) : fHD \in BOOLEAN}
                 \cup {LoadedVault(<<"a">>), LoadedVault(<<"a", "b">>),
                       LoadedVault(<<"b", "a">>)}

\* the records whose padding check may pass by chance
LuckySets == SUBSET (1..MaxMasterKeys)

VaultOp(op, pass, ret) == [op |-> op, pass |-> pass, ret |-> ret, before |-> vault]

CallEncryptWallet ==
    \E pw \in Passphrases, fail \in EncryptFailures, lucky \in LuckySets :
        /\ vault.running
        /\ IsCrypted(vault) \/ vault.nMasterKeyMaxID < MaxMasterKeys
        /\ LET r == EncryptWallet(vault, fFileBacked, pw, fail, lucky) IN
           /\ vault' = r.vault
           /\ lastOp' = VaultOp("EncryptWallet", pw, r.ret)
        /\ UNCHANGED <<selIn, selOut, scenario, mapWallet, nOrderPosNext, fFileBacked,
                       nKeypoolSize, keyPool, caller, mempool, fPruned, orphaned, keptKeys>>

CallUnlock ==
    \E pw \in Passphrases, lucky \in LuckySets :
        /\ vault.running
        /\ LET r == Unlock(vault, pw, lucky) IN
           /\ vault' = r.vault
           /\ lastOp' = VaultOp("Unlock", pw, r.ret)
        /\ UNCHANGED <<selIn, selOut, scenario, mapWallet, nOrderPosNext, fFileBacked,
                       nKeypoolSize, keyPool, caller, mempool, fPruned, orphaned, keptKeys>>

CallLock ==
    /\ vault.running
    /\ vault' = Lock(vault)
    /\ lastOp' = VaultOp("Lock", "", IsCrypted(vault))
    /\ UNCHANGED <<selIn, selOut, scenario, mapWallet, nOrderPosNext, fFileBacked,
                   nKeypoolSize, keyPool, caller, mempool, fPruned, orphaned, keptKeys>>

CallChangeWalletPassphrase ==
    \E old \in Passphrases, new \in Passphrases, lucky \in LuckySets,
       fail \in {"none", "SetKeyFromPassphrase", "Encrypt"} :
        /\ vault.running
        /\ LET r == ChangeWalletPassphrase(vault, old, new, fail, lucky) IN
           /\ vault' = r.vault
           /\ lastOp' = VaultOp("ChangeWalletPassphrase", old, r.ret)
        /\ UNCHANGED <<selIn, selOut, scenario, mapWallet, nOrderPosNext, fFileBacked,
                       nKeypoolSize, keyPool, caller, mempool, fPruned, orphaned, keptKeys>>

CallSignSignature ==
    /\ vault.running
    /\ lastOp' = VaultOp("SignSignature", "", HaveKeys(vault))
    /\ UNCHANGED <<selIn, selOut, vault, scenario, mapWallet, nOrderPosNext, fFileBacked,
                   nKeypoolSize, keyPool, caller, mempool, fPruned, orphaned, keptKeys>>

VaultNext ==
    \/ CallEncryptWallet
    \/ CallUnlock
    \/ CallLock
    \/ CallChangeWalletPassphrase
    \/ CallSignSignature

SpecVault == VaultInit /\ [][VaultNext]_vars

(***************************************************************************)
(* HD key generation (SpecHD, scenario "hd"): a wallet with an HD chain,   *)
(* plain or crypted, whose key store may already hold children of the      *)
(* chain at or above the counter, and then any sequence of GenerateNewKey, *)
(* Lock and Unlock calls.                                                  *)
(***************************************************************************)
MaxChildIndex == 3

HDVault(v, nExternalChainCounter, mapKeys) ==
    [v EXCEPT !.fHD = TRUE, !.nExternalChainCounter = nExternalChainCounter,
              !.mapKeys = mapKeys]

HDInit ==
    /\ selIn = NoCall
    /\ selOut = NoCall
    /\ scenario = "hd"
    /\ fFileBacked \in BOOLEAN
    /\ nKeypoolSize = 0
    /\ LedgerInit
    /\ vault \in {HDVault(v, n, keys) :
                    v \in {NewVault(TRUE), LoadedVault(<<"a">>)}, n \in 0..1,
                    keys \in SUBSET (0..MaxChildIndex)}

CallGenerateNewKey ==
    \E fail \in {"none", "WriteHDChain", "AddKey", "WriteKey"} :
        /\ vault.running
        /\ vault.nExternalChainCounter <= MaxChildIndex
        /\ LET r == GenerateNewKey(vault, fFileBacked, fail) IN
           /\ vault' = r.vault
           /\ lastOp' = [op |-> "GenerateNewKey", ret |-> r.ret, childKey |-> r.childKey,
                         before |-> vault]
        /\ UNCHANGED <<selIn, selOut, scenario, mapWallet, nOrderPosNext, fFileBacked,
                       nKeypoolSize, keyPool, caller, mempool, fPruned, orphaned, keptKeys>>

HDNext == CallGenerateNewKey \/ CallUnlock \/ CallLock

SpecHD == HDInit /\ [][HDNext]_vars

(***************************************************************************)
(* Properties of the ledger, stated on the state and on the operation      *)
(* recorded in lastOp.                                                     *)
(***************************************************************************)
\* the ledger transactions with an input consuming output n of h
Spenders(mw, h, n) ==
    {x \in DOMAIN mw : \E k \in 1..Len(mw[x].vin) : mw[x].vin[k] = <<h, n>>}

\* C1: no two distinct transactions recorded in the ledger have an input
\* that consumes the same previous output, whatever the interleaving of the
\* callers' CreateTransaction and CommitTransaction calls.
C1_NoDoubleSpend ==
    \A x \in DOMAIN mapWallet, y \in DOMAIN mapWallet :
        x # y => Range(mapWallet[x].vin) \cap Range(mapWallet[y].vin) = {}

\* the last operation ran AddToWallet on the transaction lastOp.hash
AddedByLastOp ==
    /\ \/ lastOp.op = "AddToWalletIfInvolvingMe" /\ ~lastOp.fSkipped
       \/ lastOp.op = "CommitTransaction" /\ lastOp.steps # <<>>
    /\ lastOp.hash \in DOMAIN mapWallet

\* C2: after AddToWallet has processed T, every output of T that a ledger
\* transaction consumes is marked spent in T's record if and only if one of
\* the consuming ledger transactions is not orphaned, whatever the order in
\* which T and its spender were added and also when T came with a block.
C2_SpentConsistency ==
    AddedByLastOp =>
        \A n \in 0..(Len(mapWallet[lastOp.hash].vout) - 1) :
            LET S == Spenders(mapWallet, lastOp.hash, n) \ {lastOp.hash} IN
            S # {} => (IsSpent(mapWallet[lastOp.hash], n) <=> S \ orphaned # {})

\* C3 as stated: in every reachable ledger state an output is marked spent
\* only if a transaction currently in the ledger has an input consuming it.
C3_SpentHasSpenderAsStated ==
    \A h \in DOMAIN mapWallet :
        \A n \in 0..(Len(mapWallet[h].vfSpent) - 1) :
            IsSpent(mapWallet[h], n) => Spenders(mapWallet, h, n) # {}

\* C3 amended: as long as no record has been erased (EraseFromWallet,
\* ResendWalletTransactions) and FixSpentCoins has marked no output from the
\* transaction index, an output is marked spent only if a transaction
\* currently in the ledger has an input consuming it.
C3_SpentHasSpender == ~fPruned => C3_SpentHasSpenderAsStated

\* C3 witness: a coinstake was disconnected, nothing was erased or repaired,
\* and a committed payment has left an output of F marked spent.
C3_Witness ==
    /\ ~fPruned
    /\ orphaned # {}
    /\ lastOp.op = "CommitTransaction"
    /\ lastOp.ret = "true"
    /\ "F" \in DOMAIN mapWallet
    /\ \E n \in 0..1 : IsSpent(mapWallet["F"], n) /\ <<"F", n>> \in Range(mapWallet["A"].vin)

\* the transaction the last observation showed
ObservedTx == CHOOSE tx \in ObservableTxs : tx.hash = lastOp.hash

\* every input of tx whose previous output is an owned output of a ledger
\* record has that output marked spent
InputsMarked(tx) ==
    \A k \in 1..Len(tx.vin) :
        LET txin == tx.vin[k] IN
        (/\ txin[1] \in DOMAIN mapWallet
         /\ txin[2] < Len(mapWallet[txin[1]].vout)
         /\ IsMine(mapWallet[txin[1]].vout[txin[2] + 1]))
        => IsSpent(mapWallet[txin[1]], txin[2])

WalkedTx == IF lastOp.hash \in DOMAIN mapWallet THEN mapWallet[lastOp.hash] ELSE ObservedTx

KeyInPool(keys, k) ==
    \E i \in keys.setKeyPool : i \in DOMAIN keys.poolDB /\ keys.poolDB[i] = k

\* step a of a commit comes before step b
StepBefore(steps, a, b) ==
    \A i \in 1..Len(steps), j \in 1..Len(steps) : (steps[i] = a /\ steps[j] = b) => i < j

\* C6: after CommitTransaction returns true the transaction is in the
\* ledger, every output its inputs consume is marked spent, the mempool and
\* the relay came after the ledger writes, and a key kept by a commit can
\* never be drawn from the pool again.
C6_CommitEffects ==
    /\ (lastOp.op = "CommitTransaction" /\ lastOp.ret = "true") =>
          /\ lastOp.hash \in DOMAIN mapWallet
          /\ mapWallet[lastOp.hash].vin = caller[lastOp.hash].wtxNew.vin
          /\ \A txin \in Range(mapWallet[lastOp.hash].vin) :
                txin[1] \in DOMAIN mapWallet /\ IsSpent(mapWallet[txin[1]], txin[2])
          /\ \A w \in {"KeepKey", "AddToWallet", "MarkSpent"},
                n \in {"AcceptToMemoryPool", "Relay"} :
                /\ \E i \in 1..Len(lastOp.steps) : lastOp.steps[i] = w
                /\ \E i \in 1..Len(lastOp.steps) : lastOp.steps[i] = n
                /\ StepBefore(lastOp.steps, w, n)
          /\ lastOp.reservekey.nIndex # -1 => lastOp.reservekey.vchPubKey \in keptKeys
    /\ \A k \in keptKeys : ~KeyInPool(keyPool, k)

\* C6 witness: a commit returned true for a transaction whose change went
\* to a key reserved from the pool.
C6_Witness ==
    /\ lastOp.op = "CommitTransaction"
    /\ lastOp.ret = "true"
    /\ lastOp.reservekey.nIndex # -1
    /\ Len(mapWallet[lastOp.hash].vout) = 2

\* C7: CreateTransaction, whether it succeeds or fails, leaves every ledger
\* record, every spent flag and the order-position counter as they were.
C7_CreateLeavesLedger ==
    lastOp.op = "CreateTransaction" => lastOp.before = Ledger

\* C7 witness: a build succeeded on a ledger with unspent outputs, with
\* change and a key reserved from the pool.
C7_Witness ==
    /\ lastOp.op = "CreateTransaction"
    /\ lastOp.ret
    /\ caller[lastOp.hash].reservekey.nIndex # -1
    /\ \E txin \in Range(caller[lastOp.hash].wtxNew.vin) :
            ~IsSpent(mapWallet[txin[1]], txin[2])

(***************************************************************************)
(* Properties of the selectors, stated on the call recorded in selOut.     *)
(***************************************************************************)
\* the thresholds of the recorded call; SelectCoins ends with (0, 1)
OutConfMine == IF selOut.fn = "SelectCoins" THEN 0 ELSE selOut.nConfMine
OutConfTheirs == IF selOut.fn = "SelectCoins" THEN 1 ELSE selOut.nConfTheirs

\* the candidates deep enough and not later than the spend time
EligibleCoins(nConfMine, nConfTheirs) ==
    {c \in Range(selIn.vCoins) :
        /\ c.nDepth >= (IF c.fFromMe THEN nConfMine ELSE nConfTheirs)
        /\ c.nTime <= SpendTime}

\* the eligible candidates below target + CENT
SmallPartition(nConfMine, nConfTheirs) ==
    {c \in EligibleCoins(nConfMine, nConfTheirs) : c.nValue < selIn.nTargetValue + CENT}

\* the value of the outputs in the returned set
ValueOfReturnedSet ==
    SumValues({c \in Range(selIn.vCoins) : OutPoint(c) \in selOut.res.setCoinsRet})

\* the call went through SelectSmallestCoins
UsesSmallest ==
    \/ selOut.fn = "SelectSmallestCoins"
    \/ (selOut.fn = "SelectCoins" /\ selOut.contract /\ ~selOut.fHasSelected)

\* C8 as stated: every selector succeeds, with a set worth nValueRet >= target,
\* when the target is at most the eligible sum, and fails only when the
\* eligible sum is below the target.
C8_SufficiencyAsStated ==
    selOut # NoCall =>
        LET E == SumValues(EligibleCoins(OutConfMine, OutConfTheirs)) IN
        /\ selIn.nTargetValue <= E =>
              /\ selOut.res.ret
              /\ ValueOfReturnedSet = selOut.res.nValueRet
              /\ selOut.res.nValueRet >= selIn.nTargetValue
        /\ ~selOut.res.ret => E < selIn.nTargetValue

\* C8 amended: as stated, except that SelectSmallestCoins (and SelectCoins for a
\* contract) returns false when no candidate is eligible, also for a target of 0.
C8_Sufficiency ==
    selOut # NoCall =>
        LET Elig == EligibleCoins(OutConfMine, OutConfTheirs)
            E == SumValues(Elig)
        IN
        /\ (selIn.nTargetValue <= E /\ (UsesSmallest => Elig # {})) =>
              /\ selOut.res.ret
              /\ ValueOfReturnedSet = selOut.res.nValueRet
              /\ selOut.res.nValueRet >= selIn.nTargetValue
        /\ ~selOut.res.ret => (E < selIn.nTargetValue \/ (UsesSmallest /\ Elig = {}))
        /\ (UsesSmallest /\ Elig = {}) => ~selOut.res.ret

\* C8 witness: SelectCoins met the target with an output that only a later,
\* looser attempt admits, and with more than the target.
C8_Witness ==
    /\ selOut.fn = "SelectCoins"
    /\ ~selOut.fHasSelected
    /\ selOut.res.ret
    /\ selOut.res.nValueRet > selIn.nTargetValue
    /\ Cardinality(selOut.res.setCoinsRet) >= 2
    /\ \E c \in Range(selIn.vCoins) : OutPoint(c) \in selOut.res.setCoinsRet /\ c.nDepth < 10

\* C9 as stated: SelectCoinsMinConf returns exactly the target whenever one
\* eligible candidate has the target value or some subset of the small
\* partition sums to it, whatever the random choices.
C9_ExactAsStated ==
    selOut.fn = "SelectCoinsMinConf" =>
        ((\/ \E c \in EligibleCoins(OutConfMine, OutConfTheirs) : c.nValue = selIn.nTargetValue
          \/ \E S \in SUBSET SmallPartition(OutConfMine, OutConfTheirs) :
                S # {} /\ SumValues(S) = selIn.nTargetValue)
         => (selOut.res.ret /\ selOut.res.nValueRet = selIn.nTargetValue))

\* C9 amended: the exact total is returned for every random outcome when one
\* eligible candidate has the target value or the whole small partition sums
\* to the target; when only a part of the partition sums to the target, the
\* exact total is one of the possible results.
C9_ExactMatch ==
    /\ selOut.fn = "SelectCoinsMinConf" =>
          ((\/ \E c \in EligibleCoins(OutConfMine, OutConfTheirs) : c.nValue = selIn.nTargetValue
            \/ SumValues(SmallPartition(OutConfMine, OutConfTheirs)) = selIn.nTargetValue)
           => (selOut.res.ret /\ selOut.res.nValueRet = selIn.nTargetValue))
    /\ selOut = NoCall =>
          \A pol \in Policies :
            (\E S \in SUBSET SmallPartition(pol[1], pol[2]) :
                S # {} /\ SumValues(S) = selIn.nTargetValue)
            => \E r \in SelectCoinsMinConf(selIn.nTargetValue, SpendTime, pol[1], pol[2], selIn.vCoins) :
                  r.ret /\ r.nValueRet = selIn.nTargetValue

\* C9 witness: no single candidate has the target value, the whole small
\* partition (two or more outputs) sums to the target and is returned.
C9_Witness ==
    /\ selOut.fn = "SelectCoinsMinConf"
    /\ selOut.res.how = "lower"
    /\ Cardinality(selOut.res.setCoinsRet) >= 2
    /\ selOut.res.nValueRet = selIn.nTargetValue

\* the value of the lowest eligible candidate at or above target + CENT (0: none)
LowestLargerValue ==
    LET L == {c.nValue : c \in EligibleCoins(OutConfMine, OutConfTheirs) \ SmallPartition(OutConfMine, OutConfTheirs)}
    IN IF L = {} THEN 0 ELSE CHOOSE v \in L : \A w \in L : v <= w

\* the recorded call ran the subset-sum approximation
RanApproximation == selOut.fn = "SelectCoinsMinConf" /\ selOut.res.nBest # -1

\* C10 as stated: after the approximation, the lowest larger candidate is
\* returned only if the approximation's total differs from the target and the
\* larger candidate's value is no greater than that total.
C10_PreferLargerAsStated ==
    (RanApproximation /\ selOut.res.how = "larger") =>
        /\ selOut.res.nBest # selIn.nTargetValue
        /\ selOut.res.nValueRet <= selOut.res.nBest

\* C10 amended: after the approximation, the lowest larger candidate is
\* returned exactly when one exists and the approximation's total differs
\* from the target and is either below target + CENT or at least the larger
\* candidate's value; otherwise the approximation's subset is returned, and
\* it sums to the approximation's total.
C10_PreferLarger ==
    RanApproximation =>
        LET larger == LowestLargerValue
            prefer == /\ larger # 0
                      /\ selOut.res.nBest # selIn.nTargetValue
                      /\ (selOut.res.nBest < selIn.nTargetValue + CENT \/ larger <= selOut.res.nBest)
        IN /\ selOut.res.ret
           /\ selOut.res.how \in {"larger", "subset"}
           /\ selOut.res.how = "larger" <=> prefer
           /\ selOut.res.how = "larger" =>
                 (selOut.res.nValueRet = larger /\ Cardinality(selOut.res.setCoinsRet) = 1)
           /\ selOut.res.how = "subset" =>
                 (selOut.res.nValueRet = selOut.res.nBest /\ selOut.res.nBest >= selIn.nTargetValue)

\* C10 witness: the approximation ends within a cent above the target and a
\* larger candidate, further from the target, is returned instead.
C10_Witness ==
    /\ RanApproximation
    /\ selOut.res.how = "larger"
    /\ selOut.res.nBest < selIn.nTargetValue + CENT
    /\ selOut.res.nValueRet > selOut.res.nBest

(***************************************************************************)
(* The fee loop of CreateTransaction (specification SpecSend).             *)
(***************************************************************************)
\* the last call was a CreateTransaction
Created == lastOp.op = "CreateTransaction"

\* no pass can be asked a higher fee than this: the size is below
\* MAX_STANDARD_TX_SIZE when the fee is checked
FeeCeiling(req) ==
    (1 + MAX_STANDARD_TX_SIZE \div 1000) * Max(req.nTransactionFee, GetBaseFee(NoTx))

\* C11: the fee loop ends: within a pass the fee is never lowered, every
\* retry starts from a fee guess strictly above the fee of the pass before,
\* no guess exceeds the fee of the largest standard transaction, and so the
\* number of passes is bounded; a successful call reports the fee of its
\* last pass.
C11_FeeConvergence ==
    Created =>
        LET h == lastOp.hist IN
        /\ \A i \in 1..Len(h) : h[i].nFeeRet >= h[i].nFeeGuess
        /\ \A i \in 1..(Len(h) - 1) : h[i + 1].nFeeGuess > h[i].nFeeRet
        /\ \A i \in 2..Len(h) : h[i].nFeeGuess <= FeeCeiling(lastOp.req)
        /\ Len(h) <= FeeCeiling(lastOp.req) + 2
        /\ lastOp.ret => lastOp.nFeeRet = h[Len(h)].nFeeRet

\* a call that raised its fee guess twice and succeeded on its third pass
C11_Witness ==
    /\ Created /\ lastOp.ret /\ Len(lastOp.hist) >= 3
    /\ lastOp.hist[3].nFeeGuess > lastOp.hist[2].nFeeGuess
    /\ lastOp.hist[2].nFeeGuess > lastOp.hist[1].nFeeGuess

\* C12: with a provided input set every pass uses the value of exactly
\* that set, a successful transaction spends exactly the provided outputs,
\* and a pass whose inputs are worth less than the outputs plus the fee
\* guess is the last pass and ends in an error.
C12_ProvidedInputsOnly ==
    (Created /\ lastOp.req.setCoins_in # {}) =>
        LET h == lastOp.hist
            req == lastOp.req
        IN /\ lastOp.ret => /\ Range(lastOp.wtxNew.vin) = req.setCoins_in
                            /\ Len(lastOp.wtxNew.vin) = Cardinality(req.setCoins_in)
           /\ \A i \in 1..Len(h) :
                /\ h[i].steps[1] = "ProvidedCoins"
                /\ h[i].nValueIn = ValueOfOutputs(lastOp.before.mapWallet, req.setCoins_in)
                /\ h[i].nValueIn < req.nValue + h[i].nFeeGuess
                      => i = Len(h) /\ ~lastOp.ret /\ lastOp.err = "shortfall"

\* a provided set that covered the first fee guess and not the second
C12_Witness ==
    /\ Created /\ lastOp.req.setCoins_in # {} /\ lastOp.err = "shortfall"
    /\ Len(lastOp.hist) = 2

\* the sum of the values of a vout
RECURSIVE ValueOut(_)
ValueOut(vout) == IF vout = <<>> THEN 0 ELSE vout[1].nValue + ValueOut(Tail(vout))

RequestedChange(req) ==
    IF req.destChange # "none" THEN "destChange"
    ELSE IF req.change_back_to_input_address THEN "input" ELSE "key"

\* C14: the change output of a built transaction pays the requested
\* destination (the coin-control destination, else an input's address when
\* change goes back to the inputs, else a reserved key) and its script is
\* never empty, with a provided input set as well.
C14_ChangeDestination ==
    (Created /\ lastOp.ret /\ lastOp.hist[Len(lastOp.hist)].nChange > 0) =>
        /\ lastOp.hist[Len(lastOp.hist)].scriptChange = RequestedChange(lastOp.req)
        /\ lastOp.hist[Len(lastOp.hist)].scriptChange # "empty"

\* C15 as stated: no built transaction has a change output worth more than
\* 0 and less than CENT.
C15_NoSubCentChangeAsStated ==
    (Created /\ lastOp.ret) =>
        ~(0 < lastOp.hist[Len(lastOp.hist)].nChange
            /\ lastOp.hist[Len(lastOp.hist)].nChange < CENT)

\* the passes of the last call that computed a change
ChangePasses ==
    {i \in 1..Len(lastOp.hist) :
        Len(lastOp.hist[i].steps) >= 2 /\ lastOp.hist[i].steps[2] = "ComputeChange"
        /\ ~(i = Len(lastOp.hist) /\ lastOp.err = "shortfall")}

\* C15: in every pass a change that stays positive and below CENT goes
\* with a fee of at least the base fee: while the fee guess is below the
\* base fee the change is moved to the fee, up to the base fee, and only
\* what remains is paid as change; what the fee gains the change loses.
C15_SubCentChange ==
    Created =>
        \A i \in ChangePasses :
            LET p == lastOp.hist[i] IN
            /\ (0 < p.nChange /\ p.nChange < CENT) => p.nFeeRet >= GetBaseFee(NoTx)
            /\ p.nFeeRet > p.nFeeGuess => p.nFeeRet <= GetBaseFee(NoTx)
            /\ p.nChange + p.nFeeRet = p.nValueIn - lastOp.req.nValue

\* a built transaction whose change output is worth less than CENT
C15_Witness ==
    /\ Created /\ lastOp.ret
    /\ 0 < lastOp.hist[Len(lastOp.hist)].nChange
    /\ lastOp.hist[Len(lastOp.hist)].nChange < CENT
    /\ lastOp.hist[Len(lastOp.hist)].nFeeRet >= GetBaseFee(NoTx)
    /\ Len(lastOp.wtxNew.vout) = 2

\* the place of step s in the steps of a pass, 0 when it was not taken
StepAt(steps, s) ==
    IF \E k \in 1..Len(steps) : steps[k] = s
    THEN CHOOSE k \in 1..Len(steps) : steps[k] = s ELSE 0

\* C16 as stated: a pass signs only after its fee check, a pass that is
\* retried has signed nothing, and the supporting transactions are
\* collected before signing.
C16_SignAfterFeeCheckAsStated ==
    Created =>
        \A i \in 1..Len(lastOp.hist) :
            LET steps == lastOp.hist[i].steps IN
            /\ StepAt(steps, "Sign") # 0 =>
                    /\ StepAt(steps, "CheckFee") # 0
                    /\ StepAt(steps, "CheckFee") < StepAt(steps, "Sign")
            /\ i < Len(lastOp.hist) => StepAt(steps, "Sign") = 0
            /\ (StepAt(steps, "Sign") # 0 /\ StepAt(steps, "AddSupportingTransactions") # 0)
                    => StepAt(steps, "AddSupportingTransactions") < StepAt(steps, "Sign")

\* the steps of a pass without the change output and its key
MainSteps(steps) ==
    SelectSeq(steps, LAMBDA s : s \notin {"ChangeOutput", "GetReservedKey"})

\* the order of a pass that runs to its end
PassOrder(req) ==
    <<IF req.setCoins_in # {} THEN "ProvidedCoins" ELSE "SelectCoins", "ComputeChange",
      "Sign", "SizeCheck", "CheckFee", "AddSupportingTransactions">>

\* C16: every pass takes its steps in the order inputs, change, sign, size
\* check, fee check: the size and the fee are those of the signed
\* transaction, a pass that is retried has signed its inputs and stopped
\* at the fee check, and the supporting transactions are collected last,
\* by the pass that succeeds only.
C16_SignBeforeFeeCheck ==
    Created =>
        \A i \in 1..Len(lastOp.hist) :
            LET steps == MainSteps(lastOp.hist[i].steps)
                order == PassOrder(lastOp.req)
            IN /\ Len(steps) <= Len(order)
               /\ steps = SubSeq(order, 1, Len(steps))
               /\ i < Len(lastOp.hist) => Len(steps) = 5
               /\ (i = Len(lastOp.hist) /\ lastOp.ret) <=> Len(steps) = 6

\* a call that signed in a pass it then retried for the fee
C16_Witness ==
    /\ Created /\ lastOp.ret /\ Len(lastOp.hist) >= 2
    /\ StepAt(lastOp.hist[1].steps, "Sign") # 0
    /\ StepAt(lastOp.hist[1].steps, "Sign") < StepAt(lastOp.hist[1].steps, "CheckFee")

(***************************************************************************)
(* The key vault (specification SpecVault).                                *)
(***************************************************************************)
Unencrypted(v) == ~v.fUseCrypto /\ v.keysUnder = NoKey /\ v.vMasterKey = NoKey
Locked(v) == v.fUseCrypto /\ v.keysUnder # NoKey /\ v.vMasterKey = NoKey
Unlocked(v) == v.fUseCrypto /\ v.keysUnder # NoKey /\ v.vMasterKey = v.keysUnder

\* the last call was a call of the vault
VaultCall == lastOp.op \in {"EncryptWallet", "Unlock", "Lock", "ChangeWalletPassphrase",
                            "SignSignature"}

\* C17: while the process runs the vault is in exactly one of Unencrypted,
\* Locked and Unlocked; no call takes a crypted vault back to Unencrypted;
\* and EncryptWallet on a crypted vault returns false and changes neither
\* the lock state nor the master-key records.
C17_VaultStates ==
    /\ vault.running =>
          Cardinality({s \in {"Unencrypted", "Locked", "Unlocked"} :
                          \/ s = "Unencrypted" /\ Unencrypted(vault)
                          \/ s = "Locked" /\ Locked(vault)
                          \/ s = "Unlocked" /\ Unlocked(vault)}) = 1
    /\ (VaultCall /\ IsCrypted(lastOp.before)) => IsCrypted(vault)
    /\ (lastOp.op = "EncryptWallet" /\ IsCrypted(lastOp.before)) =>
          /\ lastOp.ret = "false"
          /\ vault = lastOp.before

\* EncryptWallet was called on an unlocked vault that an earlier
\* EncryptWallet had encrypted
C17_Witness ==
    /\ lastOp.op = "EncryptWallet" /\ lastOp.ret = "false"
    /\ Unlocked(lastOp.before) /\ Unlocked(vault)
    /\ lastOp.before.strWalletPassphrase # ""

\* C18: a successful EncryptWallet(pw) leaves the vault Locked; while pw is
\* the passphrase, Unlock of the Locked vault with another passphrase
\* returns false and leaves it Locked, Unlock(pw) returns true and leaves
\* it Unlocked, and signing succeeds on the Unlocked vault.
C18_EncryptThenUnlock ==
    /\ (lastOp.op = "EncryptWallet" /\ lastOp.ret = "true") => Locked(vault)
    /\ (lastOp.op = "Unlock" /\ Locked(lastOp.before)
          /\ lastOp.before.strWalletPassphrase # "") =>
            IF lastOp.pass = lastOp.before.strWalletPassphrase
            THEN lastOp.ret /\ Unlocked(vault)
            ELSE ~lastOp.ret /\ Locked(vault)
    /\ (lastOp.op = "SignSignature" /\ Unlocked(vault)) => lastOp.ret

\* the passphrase matches one of the records
MatchesRecord(v, pass) == \E k \in 1..Len(v.mapMasterKeys) : v.mapMasterKeys[k].pass = pass

\* C19: with several master-key records under different passphrases,
\* Unlock of a Locked vault returns true exactly when the passphrase is
\* that of one of the records, in whatever order the records are.
C19_UnlockAnyRecord ==
    (lastOp.op = "Unlock" /\ Locked(lastOp.before) /\ Len(lastOp.before.mapMasterKeys) >= 2
        /\ lastOp.before.mapMasterKeys[1].pass # lastOp.before.mapMasterKeys[2].pass) =>
        (lastOp.ret <=> MatchesRecord(lastOp.before, lastOp.pass))

\* C20: an EncryptWallet that returns, true or false, has either added no
\* master-key record, or added one and encrypted every key under it.
C20_EncryptAllOrNothing ==
    (lastOp.op = "EncryptWallet" /\ lastOp.ret \in {"true", "false"}) =>
        \/ vault.mapMasterKeys = lastOp.before.mapMasterKeys
        \/ /\ IsCrypted(vault)
           /\ vault.keysUnder = vault.mapMasterKeys[Len(vault.mapMasterKeys)].key

(***************************************************************************)
(* HD key generation (specification SpecHD).                               *)
(***************************************************************************)
\* C21: in HD mode the counter never decreases, also when GenerateNewKey
\* throws; a call that returns a key returns the child at the smallest
\* index at or above the counter that the key store did not hold, leaves
\* the counter one above that index, and returns no index an earlier call
\* returned.
C21_HDNextIndex ==
    (lastOp.op = "GenerateNewKey" /\ lastOp.before.fHD) =>
        /\ vault.nExternalChainCounter >= lastOp.before.nExternalChainCounter
        /\ lastOp.ret = "ok" =>
              /\ lastOp.childKey >= lastOp.before.nExternalChainCounter
              /\ lastOp.childKey \notin lastOp.before.mapKeys
              /\ \A j \in lastOp.before.nExternalChainCounter..(lastOp.childKey - 1) :
                    j \in lastOp.before.mapKeys
              /\ vault.nExternalChainCounter = lastOp.childKey + 1
              /\ lastOp.childKey \notin lastOp.before.issued

\* a key returned after the call skipped a child the key store held, in
\* a wallet that had issued a key before
C21_Witness ==
    /\ lastOp.op = "GenerateNewKey" /\ lastOp.ret = "ok"
    /\ lastOp.childKey > lastOp.before.nExternalChainCounter
    /\ lastOp.before.issued # {}

(***************************************************************************)
(* C22, C23: reconciliation against the transaction index.                 *)
(***************************************************************************)
Reconciled == scenario = "audit" /\ lastOp.op = "FixSpentCoins"

\* C22: a FixSpentCoins run that directly follows a repair run with the same
\* index, nothing having touched the ledger in between, reports a mismatch
\* count of 0 and a value in question of 0.
C22_FixIsIdempotent ==
    (Reconciled /\ lastOp.nRepeated # -1) =>
        lastOp.nMismatchFound = 0 /\ lastOp.nBalanceInQuestion = 0

\* the second run follows a repair that had found mismatches
C22_Witness ==
    Reconciled /\ lastOp.nRepeated >= 2 /\ lastOp.nMismatchFound = 0

\* whether the index has output n of an indexed transaction as spent
IndexSpent(vSpent, n) == n < Len(vSpent) /\ vSpent[n + 1]

\* the owned outputs of indexed records whose flag differs from the index
FlagDiffers(mw, txdb) ==
    {o \in UNION {{<<h, k - 1>> : k \in 1..Len(mw[h].vout)} : h \in DOMAIN mw \cap DOMAIN txdb} :
        /\ mw[o[1]].vout[o[2] + 1].fMine
        /\ IsSpent(mw[o[1]], o[2]) # IndexSpent(txdb[o[1]], o[2])}

RECURSIVE ValueOfPairs(_, _)
ValueOfPairs(mw, outs) ==
    IF outs = {} THEN 0
    ELSE LET o == CHOOSE x \in outs : TRUE IN
         mw[o[1]].vout[o[2] + 1].nValue + ValueOfPairs(mw, outs \ {o})

\* C23: after FixSpentCoins in repair mode every owned output of a record
\* the index knows has the index's spent state as its flag; the count
\* reported is the number of owned outputs whose flag differed before the
\* call and the value reported is the sum of their values; the flags of
\* outputs that are not owned and of records the index does not know are as
\* before.
C23_FixMatchesIndex ==
    (Reconciled /\ ~lastOp.fCheckOnly) =>
        LET before == lastOp.before
            txdb == lastOp.txdb
            differed == FlagDiffers(before, txdb)
        IN /\ DOMAIN mapWallet = DOMAIN before
           /\ FlagDiffers(mapWallet, txdb) = {}
           /\ lastOp.nMismatchFound = Cardinality(differed)
           /\ lastOp.nBalanceInQuestion = ValueOfPairs(before, differed)
           /\ \A h \in DOMAIN before : \A k \in 1..Len(before[h].vout) :
                  (h \notin DOMAIN txdb \/ ~before[h].vout[k].fMine) =>
                      mapWallet[h].vfSpent[k] = before[h].vfSpent[k]

\* a repair that turned flags both ways, with an output of another owner
\* the index has as spent
C23_Witness ==
    /\ Reconciled /\ ~lastOp.fCheckOnly
    /\ \E a, b \in FlagDiffers(lastOp.before, lastOp.txdb) :
          IsSpent(lastOp.before[a[1]], a[2]) /\ ~IsSpent(lastOp.before[b[1]], b[2])
    /\ \E h \in DOMAIN lastOp.before \cap DOMAIN lastOp.txdb : \E k \in 1..Len(lastOp.before[h].vout) :
          ~lastOp.before[h].vout[k].fMine /\ IndexSpent(lastOp.txdb[h], k - 1)

(***************************************************************************)
(* C24 .. C26: membership of the ledger.                                   *)
(***************************************************************************)
Observing == scenario = "observe"

\* C24: EraseFromWallet returns false and leaves the ledger as it was when
\* the id is absent or the wallet is not file-backed; whenever it returns
\* false the ledger is as before the call; it returns true exactly when the
\* record was removed.
C24_EraseAllOrNothing ==
    (Observing /\ lastOp.op = "EraseFromWallet") =>
        LET fRemoved == lastOp.hash \in DOMAIN lastOp.before /\ lastOp.hash \notin DOMAIN mapWallet IN
        /\ (lastOp.hash \notin DOMAIN lastOp.before \/ ~fFileBacked) =>
               (~lastOp.ret /\ mapWallet = lastOp.before)
        /\ ~lastOp.ret => mapWallet = lastOp.before
        /\ lastOp.ret <=> fRemoved

Observed == Observing /\ lastOp.op = "AddToWalletIfInvolvingMe"

\* C25 as stated: an id is in the ledger if and only if an earlier
\* observation classified its transaction as wallet-relevant or AddToWallet
\* force-added it; observing a transaction that is neither leaves the set of
\* ledger ids as it was and returns false.
C25_MembershipAsStated ==
    /\ Observing => DOMAIN mapWallet = lastOp.ever
    /\ (Observed /\ ~lastOp.fRelevant) =>
           (DOMAIN mapWallet = DOMAIN lastOp.before /\ ~lastOp.ret)

\* C25: an id is in the ledger only if an earlier observation classified
\* its transaction as wallet-relevant or AddToWallet force-added it, and it
\* stays until EraseFromWallet removes it: an observation adds the id exactly
\* when the transaction is relevant, a force-add adds it, an erase in a
\* file-backed wallet removes it; observing a transaction that is neither
\* relevant nor in the ledger leaves the ids as they were and returns false.
C25_Membership ==
    Observing =>
        /\ DOMAIN mapWallet \subseteq lastOp.ever
        /\ Observed =>
              DOMAIN mapWallet =
                  DOMAIN lastOp.before \cup (IF lastOp.fRelevant THEN {lastOp.hash} ELSE {})
        /\ (Observed /\ ~lastOp.fRelevant /\ lastOp.hash \notin DOMAIN lastOp.before) => ~lastOp.ret
        /\ lastOp.op = "AddToWallet" =>
              DOMAIN mapWallet = DOMAIN lastOp.before \cup {lastOp.hash}
        /\ lastOp.op = "EraseFromWallet" =>
              DOMAIN mapWallet =
                  DOMAIN lastOp.before \ (IF fFileBacked THEN {lastOp.hash} ELSE {})

\* a transaction of no concern is shown to a wallet that has erased a record
C25_Witness ==
    /\ Observed /\ ~lastOp.fRelevant /\ lastOp.hash \notin DOMAIN lastOp.before
    /\ lastOp.ever \ DOMAIN mapWallet # {}
    /\ mapWallet # EmptyMap

\* the record of the observed transaction had no block before the call and
\* the call shows it inside a block
SeenAgainInBlock ==
    /\ Observed
    /\ lastOp.hash \in DOMAIN lastOp.before
    /\ lastOp.before[lastOp.hash].hashBlock = 0
    /\ lastOp.pblock # 0

\* the ledger record of the observed transaction carries the block
CarriesBlock ==
    /\ mapWallet[lastOp.hash].hashBlock = lastOp.pblock
    /\ mapWallet[lastOp.hash].nIndex = IndexInBlock(lastOp.tx)

\* C26 as stated: a record without a block hash that is observed again
\* inside a block carries that block's hash and merkle index afterwards,
\* whatever the update flag.
C26_BlockRecordedAsStated == SeenAgainInBlock => CarriesBlock

\* C26: a record without a block hash that is observed again inside a block
\* with the update flag set carries that block's hash and merkle index
\* afterwards; with the flag unset the call returns false and the ledger is
\* as before.
C26_BlockRecorded ==
    SeenAgainInBlock =>
        IF lastOp.fUpdate THEN CarriesBlock
        ELSE ~lastOp.ret /\ mapWallet = lastOp.before

C26_Witness == SeenAgainInBlock /\ lastOp.fUpdate /\ lastOp.tx.hash = "S"

(***************************************************************************)
(* C27: the fields of a record under a merge.                              *)
(***************************************************************************)
Merged == scenario = "record" /\ lastOp.op = "AddToWallet" /\ lastOp.fMerged

SelectCoinsDone == scenario = "attempts" /\ selOut.fn = "SelectCoins"

\* the candidates SelectCoins returned
ReturnedCoins ==
    {selIn.vCoins[k] : k \in {j \in 1..Len(selIn.vCoins) :
                                 OutPoint(selIn.vCoins[j]) \in selOut.res.setCoinsRet}}

\* the results of the attempt with the thresholds (nConfMine, nConfTheirs)
Attempt(nConfMine, nConfTheirs) ==
    IF selOut.contract
    THEN SelectSmallestCoins(selIn.nTargetValue, SpendTime, nConfMine, nConfTheirs,
                             TrustedCoins(selIn.vCoins))
    ELSE SelectCoinsMinConf(selIn.nTargetValue, SpendTime, nConfMine, nConfTheirs,
                            TrustedCoins(selIn.vCoins))

AttemptFailed(nConfMine, nConfTheirs) == \A r \in Attempt(nConfMine, nConfTheirs) : ~r.ret

\* the result is that of the first attempt that succeeds, and what it holds
\* is as the thresholds of the attempts allow
InThresholdOrder ==
    /\ selOut.res \in (IF ~AttemptFailed(1, 10) THEN Attempt(1, 10)
                        ELSE IF ~AttemptFailed(1, 1) THEN Attempt(1, 1)
                        ELSE Attempt(0, 1))
    /\ selOut.res.ret =>
          \A c \in ReturnedCoins :
              /\ (~c.fFromMe /\ c.nDepth < 10) => AttemptFailed(1, 10)
              /\ (c.fFromMe /\ c.nDepth = 0) => (AttemptFailed(1, 10) /\ AttemptFailed(1, 1))
              /\ ~(~c.fFromMe /\ c.nDepth = 0)

\* C28 as stated: SelectCoins returns the result of the first of the
\* attempts (1, 10), (1, 1), (0, 1) that succeeds, whatever the call.
C28_ThresholdOrderAsStated == SelectCoinsDone => InThresholdOrder

\* C28: when coin control names no outputs, SelectCoins returns the result
\* of the first of the attempts (1, 10), (1, 1), (0, 1) that succeeds: an
\* external output with fewer than 10 confirmations is selected only if the
\* first failed, an own output with 0 confirmations only if the first two
\* failed; when coin control names outputs, it returns all the available
\* ones named; an unconfirmed external output is never returned.
C28_ThresholdOrder ==
    SelectCoinsDone =>
        /\ ~selOut.fHasSelected => InThresholdOrder
        /\ selOut.fHasSelected => ReturnedCoins = Range(TrustedCoins(selIn.vCoins))
        /\ \A c \in ReturnedCoins : c.fFromMe \/ c.nDepth >= 1

\* the third attempt succeeds with an own unconfirmed output, in a wallet
\* that also holds an unconfirmed external one
C28_Witness ==
    /\ SelectCoinsDone /\ ~selOut.fHasSelected /\ selOut.res.ret
    /\ AttemptFailed(1, 10) /\ AttemptFailed(1, 1)
    /\ \E c \in ReturnedCoins : c.fFromMe /\ c.nDepth = 0
    /\ \E k \in 1..Len(selIn.vCoins) : ~selIn.vCoins[k].fFromMe /\ selIn.vCoins[k].nDepth = 0

(***************************************************************************)
(* C29: SelectSmallestCoins.                                               *)
(***************************************************************************)
SmallestDone == scenario = "select" /\ selOut.fn = "SelectSmallestCoins"

\* the candidates in a returned set
CoinsOf(setCoinsRet) == {c \in Range(selIn.vCoins) : OutPoint(c) \in setCoinsRet}

\* how many candidates of each value a returned set holds
ValueCounts(setCoinsRet) ==
    [v \in {c.nValue : c \in Range(selIn.vCoins)} |->
        Cardinality({c \in CoinsOf(setCoinsRet) : c.nValue = v})]

\* every run on these candidates returns the same answer, the same value and
\* as many candidates of each value (the sort leaves the order of candidates
\* of equal value open)
SameOnEveryRun ==
    \A r \in SelectSmallestCoins(selIn.nTargetValue, SpendTime, selOut.nConfMine,
                                  selOut.nConfTheirs, selIn.vCoins) :
        /\ r.ret = selOut.res.ret
        /\ r.nValueRet = selOut.res.nValueRet
        /\ ValueCounts(r.setCoinsRet) = ValueCounts(selOut.res.setCoinsRet)

\* the returned set is a shortest prefix of the eligible candidates in
\* ascending order of value that reaches the target
ShortestPrefix ==
    LET chosen == CoinsOf(selOut.res.setCoinsRet)
        largest == CHOOSE c \in chosen : \A d \in chosen : d.nValue <= c.nValue
    IN /\ chosen # {}
       /\ chosen \subseteq EligibleCoins(selOut.nConfMine, selOut.nConfTheirs)
       /\ \A c \in EligibleCoins(selOut.nConfMine, selOut.nConfTheirs) :
              c.nValue < largest.nValue => c \in chosen
       /\ SumValues(chosen \ {largest}) < selIn.nTargetValue

\* C29 as stated: SelectSmallestCoins is deterministic, and when it returns
\* true every eligible candidate of a value below the largest selected one is
\* in the set and the set without its largest member is worth less than the
\* target.
C29_SmallestPrefixAsStated ==
    SmallestDone => (SameOnEveryRun /\ (selOut.res.ret => ShortestPrefix))

\* C29: as stated for a target above 0; for a target of 0 a call that
\* returns true returns one eligible candidate of the smallest value.
C29_SmallestPrefix ==
    SmallestDone =>
        /\ SameOnEveryRun
        /\ (selOut.res.ret /\ selIn.nTargetValue > 0) => ShortestPrefix
        /\ (selOut.res.ret /\ selIn.nTargetValue = 0) =>
              \E c \in EligibleCoins(selOut.nConfMine, selOut.nConfTheirs) :
                  /\ CoinsOf(selOut.res.setCoinsRet) = {c}
                  /\ \A d \in EligibleCoins(selOut.nConfMine, selOut.nConfTheirs) :
                         c.nValue <= d.nValue

\* two of three eligible candidates reach the target, an ineligible smaller
\* one is passed over
C29_Witness ==
    /\ SmallestDone /\ selOut.res.ret /\ selIn.nTargetValue > 0
    /\ Cardinality(selOut.res.setCoinsRet) = 2
    /\ Cardinality(EligibleCoins(selOut.nConfMine, selOut.nConfTheirs)) = 2
    /\ \E c \in Range(selIn.vCoins) \ EligibleCoins(selOut.nConfMine, selOut.nConfTheirs) :
          \A d \in CoinsOf(selOut.res.setCoinsRet) : c.nValue < d.nValue

(***************************************************************************)
(* C30: staking with the whole balance reserved.                           *)
(***************************************************************************)
StakingDone == scenario = "stake" /\ selOut.fn = "SelectCoinsForStaking"

\* the unspent owned outputs of confirmed transactions and of the wallet's
\* own unconfirmed ones
EligibleBalance ==
    SumValues({c \in Range(selIn.wallet) :
                 c.nDepth > 0 \/ (c.fFromMe /\ (c.fDepsConfirmed \/ c.fCoinStake))})

\* C30 as stated: with a reserve greater than the total eligible balance
\* SelectCoinsForStaking returns false, returns no outputs and reports
\* ENTIRE_BALANCE_RESERVED, whatever the ledger.
C30_AllReservedAsStated ==
    (StakingDone /\ selIn.nReserveBalance > EligibleBalance) =>
        /\ ~selOut.res.ret
        /\ selOut.res.vCoinsRet = <<>>
        /\ selOut.res.not_staking_error = "ENTIRE_BALANCE_RESERVED"

\* C30: with a balance above 0 in balance_out (what the caller handed in
\* plus the eligible outputs) and a reserve not below it,
\* SelectCoinsForStaking returns false, leaves the caller's vector as it was
\* and, called by the miner, reports ENTIRE_BALANCE_RESERVED; with a balance
\* of 0 it returns false, leaves the vector as it was and the miner is told
\* NO_COINS; a caller other than the miner is told nothing.
C30_AllReserved ==
    StakingDone =>
        LET balance == selIn.balance_out + EligibleBalance IN
        /\ selOut.res.balance_out = balance
        /\ (balance <= 0 \/ selIn.nReserveBalance >= balance) =>
              /\ ~selOut.res.ret
              /\ selOut.res.vCoinsRet = selIn.vCoinsRet
              /\ selOut.res.not_staking_error =
                    (IF ~selIn.fMiner THEN "NONE"
                     ELSE IF balance <= 0 THEN "NO_COINS" ELSE "ENTIRE_BALANCE_RESERVED")

\* the miner asks a wallet that has outputs to stake and a reserve above its
\* balance
C30_Witness ==
    /\ StakingDone /\ selIn.fMiner /\ selIn.balance_out = 0 /\ selIn.vCoinsRet = <<>>
    /\ EligibleBalance > 0 /\ selIn.nReserveBalance > EligibleBalance
    /\ \E k \in 1..Len(selIn.wallet) : selIn.wallet[k].nDepth = 20 /\ selIn.wallet[k].nTime = 1
    /\ selOut.res.not_staking_error = "ENTIRE_BALANCE_RESERVED"

(***************************************************************************)
(* C31: the unconfirmed balance.                                           *)
(***************************************************************************)
\* C31: GetUnconfirmedBalance is the sum of the available credit of exactly
\* the records that are not final, or that are unconfirmed, not from the
\* wallet and not in the best chain.
C31_UnconfirmedBalance ==
    (scenario = "balance" /\ selOut.fn = "GetUnconfirmedBalance") =>
        selOut.nTotal =
            SumValues({r \in Range(selIn.wallet) :
                \/ ~r.fFinal
                \/ /\ ~(r.fFinal /\ (r.nDepth >= 1 \/ (r.fFromMe /\ r.fDepsConfirmed)))
                   /\ ~r.fFromMe
                   /\ ~(r.nDepth > 0)})

(***************************************************************************)
(* Lock ordering.                                                          *)
(***************************************************************************)
\* thread t is about to enter cs
Wants(t, cs) == AtStep(t) /\ StepOf(t).a = "lock" /\ StepOf(t).cs = cs
\* thread t waits for a lock that thread u holds
WaitsFor(t, u) == \E cs \in Mutexes : Wants(t, cs) /\ Holds(u, cs)
\* with two locks a circular wait has two threads
Deadlocked == \E t, u \in LockThreads : t # u /\ WaitsFor(t, u) /\ WaitsFor(u, t)

\* C32: no thread enters cs_main while it holds cs_wallet unless it holds
\* cs_main already, and no two of the concurrently running scan, build,
\* commit, reconcile, reaccept, resend and key-pool operations wait for
\* each other on the two locks.
C32_LockOrder ==
    scenario = "locks" =>
        /\ \A t \in LockThreads :
              (Wants(t, "cs_main") /\ Holds(t, "cs_wallet")) => Holds(t, "cs_main")
        /\ ~Deadlocked

\* one thread inside cs_wallet alone while another, holding cs_main, waits
\* for cs_wallet; a third is about to enter cs_main again from inside both
C32_Witness ==
    /\ scenario = "locks"
    /\ \E t, u \in LockThreads :
          /\ Holds(t, "cs_wallet") /\ ~Holds(t, "cs_main")
          /\ Holds(u, "cs_main") /\ Wants(u, "cs_wallet") /\ ~Holds(u, "cs_wallet")

\* a thread re-enters cs_main from inside both critical sections
C32_ReentryWitness ==
    /\ scenario = "locks"
    /\ \E t \in LockThreads : Wants(t, "cs_main") /\ Holds(t, "cs_wallet") /\ Holds(t, "cs_main")

(***************************************************************************)
(* Order positions.                                                        *)
(***************************************************************************)
\* the step inserts the record hash
Inserts(hash) == hash \in DOMAIN mapWallet' /\ hash \notin DOMAIN mapWallet

\* what a step of the ledger does to the order positions
OrderStep ==
    /\ \A hash \in DOMAIN mapWallet' :
          IF Inserts(hash)
          THEN /\ mapWallet'[hash].nOrderPos = nOrderPosNext
               /\ nOrderPosNext' = nOrderPosNext + 1
               /\ \A h \in DOMAIN mapWallet : mapWallet[h].nOrderPos < mapWallet'[hash].nOrderPos
          ELSE mapWallet'[hash].nOrderPos = mapWallet[hash].nOrderPos
    /\ (\A hash \in DOMAIN mapWallet' : ~Inserts(hash)) => nOrderPosNext' = nOrderPosNext
    /\ \A h1, h2 \in DOMAIN mapWallet' :
          h1 # h2 => mapWallet'[h1].nOrderPos # mapWallet'[h2].nOrderPos

\* C33: a record newly inserted by AddToWallet receives the value the
\* counter had before the call and the counter then increases by exactly
\* one; a merge into an existing record changes neither its position nor
\* the counter; the positions of distinct records are distinct, and a new
\* record's position is above those of the records already there.
C33_OrderPositions == [][OrderStep]_vars

\* AddToWallet has merged into one of two records, the other inserted after
\* a record had been erased, so that the positions are no longer 0 and 1
C33_Witness ==
    /\ scenario = "observe"
    /\ lastOp.op = "AddToWallet"
    /\ lastOp.fMerged
    /\ Cardinality(DOMAIN mapWallet) = 2
    /\ nOrderPosNext > 2

(***************************************************************************)
(* C34: what the staking selection returns.                                *)
(***************************************************************************)
\* the record of output c is past maturity: a coinstake at the maturity
\* depth, an ordinary transaction at depth 1 or more
PastMaturity(c) ==
    IF c.fCoinStake THEN c.nDepth >= nCoinbaseMaturity + 10 ELSE c.nDepth >= 1

\* the outputs the claim describes, for a balance to hold them against
StakeableFor(balance) ==
    {c \in Range(selIn.wallet) :
        /\ c.nValue >= nMinimumInputValue
        /\ PastMaturity(c)
        /\ c.nTime + nStakeMinAge <= StakeTime
        /\ c.nValue <= balance - selIn.nReserveBalance}

ReturnedOutputs == {selOut.res.vCoinsRet[k] : k \in 1..Len(selOut.res.vCoinsRet)}

SpendableIn(mw, prevout) ==
    /\ prevout[1] \in DOMAIN mw
    /\ prevout[2] + 1 \in 1..Len(mw[prevout[1]].vout)
    /\ IsMine(mw[prevout[1]].vout[prevout[2] + 1])
    /\ ~mw[prevout[1]].vfSpent[prevout[2] + 1]

\* C35: every input of a transaction produced by a successful
\* CreateTransaction names an output that, at build time, is in the ledger,
\* owned and not marked spent, also when the caller supplies the input set.
C35_InputsSpendable ==
    (Created /\ lastOp.ret) =>
        \A k \in 1..Len(lastOp.wtxNew.vin) : SpendableIn(lastOp.before.mapWallet, lastOp.wtxNew.vin[k])

(***************************************************************************)
(* C36: a commit the mempool refuses.                                      *)
(***************************************************************************)
\* the step is a CommitTransaction that returned false after
\* AcceptToMemoryPool had refused the transaction
CommitRefused ==
    /\ lastOp'.op = "CommitTransaction"
    /\ lastOp'.ret = "false"
    /\ lastOp'.steps # <<>>
    /\ lastOp'.steps[Len(lastOp'.steps)] = "AcceptToMemoryPool"

\* C36: when CommitTransaction returns false because the mempool rejects
\* the transaction, the ledger is as before the call: the new record is not
\* present and the outputs it would have consumed are not marked spent.
C36_CommitAllOrNothing == [][CommitRefused => mapWallet' = mapWallet]_vars

(***************************************************************************)
(* C37: the indices of the key pool.                                       *)
(***************************************************************************)
\* caller c holds a reservation: an index handed out by
\* ReserveKeyFromKeyPool and neither kept nor returned
Reserved(c) == caller[c].reservekey.nIndex # -1

\* C37: an index that is reserved is not handed out again: it is not in the
\* pool set, no other caller holds it, and its pool entry still names the
\* key that was reserved; and every index of the pool set has a readable
\* pool entry.
C37_PoolIndicesUnique ==
    scenario = "pool" =>
        /\ \A nIndex \in keyPool.setKeyPool : nIndex \in DOMAIN keyPool.poolDB
        /\ \A c \in Callers :
              Reserved(c) =>
                 /\ caller[c].reservekey.nIndex \notin keyPool.setKeyPool
                 /\ caller[c].reservekey.nIndex \in DOMAIN keyPool.poolDB
                 /\ keyPool.poolDB[caller[c].reservekey.nIndex] = caller[c].reservekey.vchPubKey
                 /\ \A d \in Callers \ {c} :
                       Reserved(d) => caller[d].reservekey.nIndex # caller[c].reservekey.nIndex

(***************************************************************************)
(* C38: the lock state across ChangeWalletPassphrase.                      *)
(***************************************************************************)
\* C38: ChangeWalletPassphrase preserves the lock state: whether it
\* succeeds or fails, the vault is Locked after the call if and only if it
\* was Locked before it, and on failure the master-key records are
\* unchanged.
C38_ChangeKeepsLockState ==
    (scenario = "vault" /\ lastOp.op = "ChangeWalletPassphrase") =>
        /\ IsLocked(vault) <=> IsLocked(lastOp.before)
        /\ ~lastOp.ret => vault.mapMasterKeys = lastOp.before.mapMasterKeys

(***************************************************************************)
(* C39: ReacceptWalletTransactions terminates.                             *)
(***************************************************************************)
\* the step is a rescan after which the loop repeats
RepeatsLoop == caller["A"].pc = "rescan" /\ caller'["A"].pc = "while" /\ caller'["A"].fRepeat

\* the step is a pass over the ledger
PassesLedger == caller["A"].pc = "while" /\ caller'["A"].pc = "rescan"

\* C39: ReacceptWalletTransactions returns on every chain and ledger; its
\* loop repeats only after a rescan that added at least one new record to
\* the ledger and took none away; and an output that was marked spent
\* before a pass, or that has sent the call into a rescan before, sends it
\* into no other.
C39_ReacceptTerminates ==
    /\ <>(caller["A"].pc = "returned")
    /\ [][RepeatsLoop =>
            /\ DOMAIN mapWallet \subseteq DOMAIN mapWallet'
            /\ DOMAIN mapWallet' # DOMAIN mapWallet]_vars
    /\ [][PassesLedger =>
            \A o \in caller'["A"].vMissingTx :
                /\ ~IsSpent(mapWallet[o[1]], o[2])
                /\ o \notin lastOp.ever]_vars

\* the call has returned after two rescans that each added a record: S was
\* not in the ledger at the call and the chain shows P before S, so that
\* the first rescan found S and only the second one P
C39_Witness ==
    /\ scenario = "reaccept"
    /\ caller["A"].pc = "returned"
    /\ "S" \notin DOMAIN selIn.wallet
    /\ {"S", "P"} \subseteq DOMAIN mapWallet
    /\ \E a, b \in 1..Len(selIn.chain) :
          a < b /\ selIn.chain[a].hash = "P" /\ selIn.chain[b].hash = "S"
    /\ <<"S", 1>> \in lastOp.ever
====
